---- MODULE Spec2Model ----
(***************************************************************************)
(* Model of the copper finite-domain constraint solver.                    *)
(*                                                                         *)
(* The sources hold two generations of the solver:                         *)
(*   - the "views" generation (model.rs, views.rs, props/*.rs,             *)
(*     search/agenda.rs, search/branch.rs, search/mode.rs), whose          *)
(*     propagators prune through views and a Context;                      *)
(*   - the "searcher" generation (model/mod.rs, model/generic.rs,          *)
(*     props.rs, vars.rs, search/mod.rs, search/engine.rs,                 *)
(*     search/branch/*.rs), whose propagators work on variable ids and     *)
(*     whose domain store records change events in a hash set.             *)
(* Both are modelled, each from its own source.                            *)
(***************************************************************************)
EXTENDS Integers, Sequences, FiniteSets, TLC

(***************************************************************************)
(* Bounds of the model.                                                    *)
(***************************************************************************)
\* Largest number of decision variables declared with new_var.
MaxVars == 2
\* Largest number of constraints posted on a model.
MaxProps == 2
\* Largest value of a declared domain bound (domains are taken in 0..MaxVal).
MaxVal == 2

\* Option values: None, or Some(x) with x read back as opt[1].
None == <<>>
Some(x) == <<x>>

(***************************************************************************)
(* Integer helpers.                                                        *)
(***************************************************************************)
min_of(a, b) == IF a <= b THEN a ELSE b
max_of(a, b) == IF a >= b THEN a ELSE b

\* i32::div_floor and i32::div_ceil for a strictly positive divisor.
\* i32::div_floor, were it to round towards zero as the operator / does.
div_towards_zero(a, b) == IF a < 0 THEN -((-a) \div b) ELSE a \div b

div_floor(a, b) == a \div b
div_ceil(a, b) == -((-a) \div b)

RECURSIVE SeqSum(_)
SeqSum(s) == IF s = <<>> THEN 0 ELSE Head(s) + SeqSum(Tail(s))

Range(s) == {s[i] : i \in DOMAIN s}

(***************************************************************************)
(* Views (views.rs).  A view is a tagged record:                           *)
(*   [tag |-> "i32", c]            constant                                *)
(*   [tag |-> "VarId", v]          decision variable                       *)
(*   [tag |-> "Opposite", x]       -x                                      *)
(*   [tag |-> "Plus", x, offset]   x + offset                              *)
(*   [tag |-> "TimesPos", x, scale_pos]   x * scale_pos, scale_pos > 0     *)
(*   [tag |-> "Zero"]              Times::Zero                             *)
(***************************************************************************)
Cst(c) == [tag |-> "i32", c |-> c]
Var(v) == [tag |-> "VarId", v |-> v]
opposite(x) == [tag |-> "Opposite", x |-> x]
plus(x, offset) == [tag |-> "Plus", x |-> x, offset |-> offset]
times_pos(x, scale_pos) == [tag |-> "TimesPos", x |-> x, scale_pos |-> scale_pos]
times_neg(x, scale_neg) == times_pos(opposite(x), -scale_neg)
\* Times::new, were it to drop the sign of the factor.
times_unsigned(x, scale) ==
    IF scale = 0 THEN [tag |-> "Zero"]
    ELSE times_pos(x, IF scale < 0 THEN -scale ELSE scale)

times(x, scale) ==
    IF scale < 0 THEN times_pos(opposite(x), -scale)
    ELSE IF scale = 0 THEN [tag |-> "Zero"]
    ELSE times_pos(x, scale)

RECURSIVE get_underlying_var(_)
get_underlying_var(w) ==
    CASE w.tag = "i32" -> None
      [] w.tag = "Zero" -> None
      [] w.tag = "VarId" -> Some(w.v)
      [] OTHER -> get_underlying_var(w.x)

RECURSIVE min_raw(_, _), max_raw(_, _)
min_raw(w, vs) ==
    CASE w.tag = "i32" -> w.c
      [] w.tag = "Zero" -> 0
      [] w.tag = "VarId" -> vs[w.v].min
      [] w.tag = "Opposite" -> -max_raw(w.x, vs)
      [] w.tag = "Plus" -> min_raw(w.x, vs) + w.offset
      [] w.tag = "TimesPos" -> min_raw(w.x, vs) * w.scale_pos
max_raw(w, vs) ==
    CASE w.tag = "i32" -> w.c
      [] w.tag = "Zero" -> 0
      [] w.tag = "VarId" -> vs[w.v].max
      [] w.tag = "Opposite" -> -min_raw(w.x, vs)
      [] w.tag = "Plus" -> max_raw(w.x, vs) + w.offset
      [] w.tag = "TimesPos" -> max_raw(w.x, vs) * w.scale_pos

(***************************************************************************)
(* Context (views.rs): the domains and the change events of one            *)
(* propagation.  A context is [vars, events, failed, ret]; `failed`        *)
(* stands for the None a bound-setting call returns, and a failed context  *)
(* passes through the calls that follow it (the `?` of the callers).       *)
(***************************************************************************)
NewContext(vs, events) == [vars |-> vs, events |-> events, failed |-> FALSE, ret |-> 0]
Fail(ctx) == [ctx EXCEPT !.failed = TRUE]

\* Context::try_set_min, were it to leave the change unrecorded.
Context_try_set_min_unrecorded(v, min, ctx) ==
    IF ctx.failed THEN ctx
    ELSE IF min > ctx.vars[v].max THEN Fail(ctx)
    ELSE IF min > ctx.vars[v].min
         THEN [ctx EXCEPT !.vars[v].min = min, !.ret = min]
         ELSE [ctx EXCEPT !.ret = ctx.vars[v].min]

Context_try_set_min(v, min, ctx) ==
    IF ctx.failed THEN ctx
    ELSE IF min > ctx.vars[v].max THEN Fail(ctx)
    ELSE IF min > ctx.vars[v].min
         THEN [ctx EXCEPT !.vars[v].min = min,
                          !.events = Append(@, v),
                          !.ret = min]
         ELSE [ctx EXCEPT !.ret = ctx.vars[v].min]

Context_try_set_max(v, max, ctx) ==
    IF ctx.failed THEN ctx
    ELSE IF max < ctx.vars[v].min THEN Fail(ctx)
    ELSE IF max < ctx.vars[v].max
         THEN [ctx EXCEPT !.vars[v].max = max,
                          !.events = Append(@, v),
                          !.ret = max]
         ELSE [ctx EXCEPT !.ret = ctx.vars[v].max]

\* i32::try_set_min, were it to refuse the bound equal to the constant.
i32_try_set_min_strict(c, min, ctx) ==
    IF ctx.failed THEN ctx
    ELSE IF min < c THEN [ctx EXCEPT !.ret = min] ELSE Fail(ctx)

\* impl View for i32
i32_try_set_min(c, min, ctx) ==
    IF ctx.failed THEN ctx
    ELSE IF min <= c THEN [ctx EXCEPT !.ret = min] ELSE Fail(ctx)

i32_try_set_max(c, max, ctx) ==
    IF ctx.failed THEN ctx
    ELSE IF max >= c THEN [ctx EXCEPT !.ret = max] ELSE Fail(ctx)

\* View::try_set_min and View::try_set_max, dispatched on the shape of the view.
RECURSIVE try_set_min(_, _, _), try_set_max(_, _, _)
\* View::try_set_min, were Opposite to hand the bound on without negating it.
try_set_min_unnegated(w, min, ctx) ==
    CASE w.tag = "i32" -> i32_try_set_min(w.c, min, ctx)
      [] w.tag = "Zero" -> i32_try_set_min(0, min, ctx)
      [] w.tag = "VarId" -> Context_try_set_min(w.v, min, ctx)
      [] w.tag = "Opposite" -> try_set_max(w.x, min, ctx)
      [] w.tag = "Plus" -> try_set_min(w.x, min - w.offset, ctx)
      [] w.tag = "TimesPos" -> try_set_min(w.x, div_ceil(min, w.scale_pos), ctx)

try_set_min(w, min, ctx) ==
    CASE w.tag = "i32" -> i32_try_set_min(w.c, min, ctx)
      [] w.tag = "Zero" -> i32_try_set_min(0, min, ctx)
      [] w.tag = "VarId" -> Context_try_set_min(w.v, min, ctx)
      [] w.tag = "Opposite" -> try_set_max(w.x, -min, ctx)
      [] w.tag = "Plus" -> try_set_min(w.x, min - w.offset, ctx)
      [] w.tag = "TimesPos" -> try_set_min(w.x, div_ceil(min, w.scale_pos), ctx)
try_set_max(w, max, ctx) ==
    CASE w.tag = "i32" -> i32_try_set_max(w.c, max, ctx)
      [] w.tag = "Zero" -> i32_try_set_max(0, max, ctx)
      [] w.tag = "VarId" -> Context_try_set_max(w.v, max, ctx)
      [] w.tag = "Opposite" -> try_set_min(w.x, -max, ctx)
      [] w.tag = "Plus" -> try_set_max(w.x, max - w.offset, ctx)
      [] w.tag = "TimesPos" -> try_set_max(w.x, div_floor(max, w.scale_pos), ctx)

(***************************************************************************)
(* Propagators of the views generation (props/mod.rs, props/eq.rs,         *)
(* props/leq.rs, props/add.rs, props/sum.rs).  A propagator state is a     *)
(* record tagged with its kind; PropId and VarId count from 1 here (from 0 *)
(* in the source).                                                         *)
(***************************************************************************)
Equals_new(x, y) == [kind |-> "Equals", x |-> x, y |-> y]
LessThanOrEquals_new(x, y) == [kind |-> "LessThanOrEquals", x |-> x, y |-> y]
Add_new(x, y, s) == [kind |-> "Add", x |-> x, y |-> y, s |-> s]
Sum_new(xs, s) == [kind |-> "Sum", xs |-> xs, s |-> s]

\* Each statement of a prune is an operator from the context before it to the
\* context after it; a prune is the composition of its statements in order.

\* Equals::prune: x.min >= y.min, x.max <= y.max, y.min >= x.min, y.max <= x.max.
Equals_x_min(p, ctx) == try_set_min(p.x, min_raw(p.y, ctx.vars), ctx)
Equals_x_max(p, ctx) == try_set_max(p.x, max_raw(p.y, ctx.vars), ctx)
Equals_y_min(p, ctx) == try_set_min(p.y, min_raw(p.x, ctx.vars), ctx)
Equals_y_max(p, ctx) == try_set_max(p.y, max_raw(p.x, ctx.vars), ctx)

Equals_prune(p, ctx) ==
    Equals_y_max(p, Equals_y_min(p, Equals_x_max(p, Equals_x_min(p, ctx))))

\* LessThanOrEquals::prune: x.max <= y.max, then y.min >= x.min.
LessThanOrEquals_x_max(p, ctx) == try_set_max(p.x, max_raw(p.y, ctx.vars), ctx)
LessThanOrEquals_y_min(p, ctx) == try_set_min(p.y, min_raw(p.x, ctx.vars), ctx)

\* LessThanOrEquals::prune, were it to prune for x < y.
LessThanOrEquals_prune_strict(p, ctx) ==
    try_set_min(p.y, min_raw(p.x, ctx.vars) + 1,
                try_set_max(p.x, max_raw(p.y, ctx.vars) - 1, ctx))

LessThanOrEquals_prune(p, ctx) ==
    LessThanOrEquals_y_min(p, LessThanOrEquals_x_max(p, ctx))

\* Add::prune: the bounds of s from x + y, of x from s - y, of y from s - x.
Add_s_min(p, ctx) ==
    try_set_min(Var(p.s), min_raw(p.x, ctx.vars) + min_raw(p.y, ctx.vars), ctx)
Add_s_max(p, ctx) ==
    try_set_max(Var(p.s), max_raw(p.x, ctx.vars) + max_raw(p.y, ctx.vars), ctx)
Add_x_min(p, ctx) ==
    try_set_min(p.x, min_raw(Var(p.s), ctx.vars) - max_raw(p.y, ctx.vars), ctx)
Add_x_max(p, ctx) ==
    try_set_max(p.x, max_raw(Var(p.s), ctx.vars) - min_raw(p.y, ctx.vars), ctx)
Add_y_min(p, ctx) ==
    try_set_min(p.y, min_raw(Var(p.s), ctx.vars) - max_raw(p.x, ctx.vars), ctx)
Add_y_max(p, ctx) ==
    try_set_max(p.y, max_raw(Var(p.s), ctx.vars) - min_raw(p.x, ctx.vars), ctx)

Add_prune(p, ctx) ==
    Add_y_max(p, Add_y_min(p, Add_x_max(p, Add_x_min(p, Add_s_max(p, Add_s_min(p, ctx))))))

\* Sum::prune, the body of the loop over the terms: the bounds of the term x from
\* the bounds [min, max] of the sum and the sums of the bounds of the terms, as they
\* were computed before the loop.
Sum_term_min(x, min, max_of_terms, ctx) ==
    try_set_min(x, min - (max_of_terms - max_raw(x, ctx.vars)), ctx)
Sum_term_max(x, max, min_of_terms, ctx) ==
    try_set_max(x, max - (min_of_terms - min_raw(x, ctx.vars)), ctx)

RECURSIVE Sum_prune_terms(_, _, _, _, _, _, _)
Sum_prune_terms(xs, i, min, max, min_of_terms, max_of_terms, ctx) ==
    IF i > Len(xs) THEN ctx
    ELSE Sum_prune_terms(xs, i + 1, min, max, min_of_terms, max_of_terms,
             Sum_term_max(xs[i], max, min_of_terms,
                 Sum_term_min(xs[i], min, max_of_terms, ctx)))

\* Sum::prune after the bounds of the terms have been summed.
Sum_s_min(p, min_of_terms, ctx) == try_set_min(Var(p.s), min_of_terms, ctx)
Sum_s_max(p, max_of_terms, ctx) == try_set_max(Var(p.s), max_of_terms, ctx)

Sum_prune_with(p, min_of_terms, max_of_terms, ctx) ==
    Sum_prune_terms(p.xs, 1, min_raw(Var(p.s), ctx.vars), max_raw(Var(p.s), ctx.vars),
                    min_of_terms, max_of_terms, ctx)

Sum_prune(p, ctx) ==
    Sum_prune_with(p,
        SeqSum([i \in DOMAIN p.xs |-> min_raw(p.xs[i], ctx.vars)]),
        SeqSum([i \in DOMAIN p.xs |-> max_raw(p.xs[i], ctx.vars)]),
        Sum_s_max(p, SeqSum([i \in DOMAIN p.xs |-> max_raw(p.xs[i], ctx.vars)]),
            Sum_s_min(p, SeqSum([i \in DOMAIN p.xs |-> min_raw(p.xs[i], ctx.vars)]), ctx)))

\* Prune::prune, dispatched on the kind of the propagator.
prune(p, ctx) ==
    CASE p.kind = "Equals" -> Equals_prune(p, ctx)
      [] p.kind = "LessThanOrEquals" -> LessThanOrEquals_prune(p, ctx)
      [] p.kind = "Add" -> Add_prune(p, ctx)
      [] p.kind = "Sum" -> Sum_prune(p, ctx)

\* The variables of a sequence of optional variable ids, in order.
RECURSIVE Somes(_)
Somes(s) == IF s = <<>> THEN <<>> ELSE Head(s) \o Somes(Tail(s))

\* Propagate::list_trigger_vars
list_trigger_vars(p) ==
    CASE p.kind = "Equals" ->
            Somes(<<get_underlying_var(p.x), get_underlying_var(p.y)>>)
      [] p.kind = "LessThanOrEquals" ->
            Somes(<<get_underlying_var(p.x), get_underlying_var(p.y)>>)
      [] p.kind = "Add" ->
            <<p.s>> \o Somes(<<get_underlying_var(p.x), get_underlying_var(p.y)>>)
      [] p.kind = "Sum" ->
            Somes([i \in DOMAIN p.xs |-> get_underlying_var(p.xs[i])]) \o <<p.s>>

\* Propagators: the states and, per variable, the propagators to schedule.
Propagators_default == [state |-> <<>>, dependencies |-> <<>>]

on_new_var(ps) == [ps EXCEPT !.dependencies = Append(@, <<>>)]

get_prop_ids_iter(ps) == [i \in 1..Len(ps.state) |-> i]

on_bound_change(ps, v) == ps.dependencies[v]

RECURSIVE RegisterDeps(_, _, _)
RegisterDeps(deps, vs, p) ==
    IF vs = <<>> THEN deps
    ELSE RegisterDeps([deps EXCEPT ![Head(vs)] = Append(@, p)], Tail(vs), p)

\* Propagators::push_new_prop: the extended registry; the new id is Len(state).
push_new_prop(ps, state) ==
    [state |-> Append(ps.state, state),
     dependencies |-> RegisterDeps(ps.dependencies, list_trigger_vars(state),
                                   Len(ps.state) + 1)]

Propagators_add(ps, x, y, s) == push_new_prop(ps, Add_new(x, y, s))
Propagators_sum(ps, xs, s) == push_new_prop(ps, Sum_new(xs, s))
Propagators_equals(ps, x, y) == push_new_prop(ps, Equals_new(x, y))
Propagators_less_than_or_equals(ps, x, y) == push_new_prop(ps, LessThanOrEquals_new(x, y))
\* Propagators::less_than, were it to post x <= y.
Propagators_less_than_loose(ps, x, y) == Propagators_less_than_or_equals(ps, x, y)

Propagators_less_than(ps, x, y) == Propagators_less_than_or_equals(ps, plus(x, 1), y)
Propagators_greater_than_or_equals(ps, x, y) == Propagators_less_than_or_equals(ps, y, x)
\* Propagators::greater_than, were it to post x >= y.
Propagators_greater_than_loose(ps, x, y) == Propagators_greater_than_or_equals(ps, x, y)

Propagators_greater_than(ps, x, y) == Propagators_greater_than_or_equals(ps, x, plus(y, 1))

(***************************************************************************)
(* Agenda (search/agenda.rs): a FIFO queue q and the set h of its members. *)
(***************************************************************************)
Agenda_default == [q |-> <<>>, h |-> {}]

\* Agenda::schedule, were it to push without the membership test.
schedule_untested(a, p) == [q |-> Append(a.q, p), h |-> a.h \cup {p}]

schedule(a, p) ==
    IF p \notin a.h THEN [q |-> Append(a.q, p), h |-> a.h \cup {p}] ELSE a

RECURSIVE schedule_all(_, _)
schedule_all(a, ps) ==
    IF ps = <<>> THEN a ELSE schedule_all(schedule(a, Head(ps)), Tail(ps))

with_props(ps) == schedule_all(Agenda_default, ps)

\* Agenda::pop on a non-empty queue: the popped propagator and the agenda left.
pop(a) == [p |-> Head(a.q), agenda |-> [q |-> Tail(a.q), h |-> a.h \ {Head(a.q)}]]

(***************************************************************************)
(* Domain store of the views generation.  A store is a sequence of         *)
(* [min, max] records indexed by VarId.                                    *)
(***************************************************************************)
new_var_with_bounds(vs, min, max) == Append(vs, [min |-> min, max |-> max])

is_set(var) == var.min = var.max

is_assigned_all(vs) == \A v \in DOMAIN vs : is_set(vs[v])

\* First unassigned variable in VarId order, None when all are assigned.
get_unassigned_var(vs) ==
    IF is_assigned_all(vs) THEN None
    ELSE Some(CHOOSE v \in DOMAIN vs :
                /\ ~is_set(vs[v])
                /\ \A u \in DOMAIN vs : u < v => is_set(vs[u]))

\* The split value, were the half of the width rounded up.
mid_rounded_up(var) == var.min + ((var.max - var.min + 1) \div 2)

\* Split value of a domain.
mid(var) == var.min + ((var.max - var.min) \div 2)

\* Frozen assignment of a fully assigned store.
into_solution(vs) == [v \in DOMAIN vs |-> vs[v].min]

(***************************************************************************)
(* Propagation to a fixed point.  A space is [vars, props].                *)
(***************************************************************************)
Space(vs, ps) == [vars |-> vs, props |-> ps]

\* Schedule the dependents of every changed variable, in event order.
RECURSIVE schedule_events(_, _, _)
schedule_events(ps, events, a) ==
    IF events = <<>> THEN a
    ELSE schedule_events(ps, Tail(events),
                         schedule_all(a, on_bound_change(ps, Head(events))))

\* One turn of the propagation loop on a space and an agenda:
\* [status, space, agenda], status "Running" when the loop goes on.
\* The turn of the loop after the propagator popped from the agenda has pruned:
\* ctx is the context it leaves, rest the agenda without it.
after_prune(space, rest, ctx) ==
    IF ctx.failed
    THEN [status |-> "Failed", space |-> space, agenda |-> rest]
    ELSE [status |-> IF is_assigned_all(ctx.vars) THEN "Assigned" ELSE "Running",
          space |-> [space EXCEPT !.vars = ctx.vars],
          agenda |-> schedule_events(space.props, ctx.events, rest)]

\* The turn of the loop on a popped propagator po.p, po.agenda being the agenda left.
run_popped(space, po) ==
    after_prune(space, po.agenda,
                prune(space.props.state[po.p], NewContext(space.vars, <<>>)))

propagate_step(space, agenda) ==
    IF agenda.q = <<>>
    THEN [status |-> IF is_assigned_all(space.vars) THEN "Assigned" ELSE "Stalled",
          space |-> space, agenda |-> agenda]
    ELSE run_popped(space, pop(agenda))

RECURSIVE propagate(_, _)
\* The loop goes on from the outcome r of a turn while it is "Running".
propagate_from(r) ==
    IF r.status = "Running" THEN propagate(r.space, r.agenda) ELSE r

propagate(space, agenda) == propagate_from(propagate_step(space, agenda))

(***************************************************************************)
(* Brancher (search/branch.rs): binary split on the first unassigned       *)
(* variable.  An iterator is [branch |-> None] or                          *)
(* [branch |-> [space, pivot, mid, is_left]].                              *)
(***************************************************************************)
split_on_unassigned(space) ==
    LET pivot == get_unassigned_var(space.vars)
    IN  IF pivot # None
        THEN [branch |-> Some([space |-> space, pivot |-> pivot[1],
                               mid |-> mid(space.vars[pivot[1]]), is_left |-> TRUE])]
        ELSE [branch |-> None]

\* SplitOnUnassigned::next, were the right child derived first.
SplitOnUnassigned_next_right_first(it) ==
    IF it.branch[1].is_left
    THEN [space |-> [it.branch[1].space EXCEPT !.props =
                        Propagators_greater_than(@, Var(it.branch[1].pivot),
                                                 Cst(it.branch[1].mid))],
          p |-> Len(it.branch[1].space.props.state) + 1,
          iter |-> [branch |-> Some([it.branch[1] EXCEPT !.is_left = FALSE])]]
    ELSE [space |-> [it.branch[1].space EXCEPT !.props =
                        Propagators_less_than_or_equals(@, Var(it.branch[1].pivot),
                                                        Cst(it.branch[1].mid))],
          p |-> Len(it.branch[1].space.props.state) + 1,
          iter |-> [branch |-> None]]

\* SplitOnUnassigned::next on an iterator that holds a branch:
\* the child space, the id of the propagator that splits it, the iterator left.
SplitOnUnassigned_next(it) ==
    LET b == it.branch[1]
    IN  IF b.is_left
        THEN [space |-> [b.space EXCEPT !.props =
                            Propagators_less_than_or_equals(@, Var(b.pivot), Cst(b.mid))],
              p |-> Len(b.space.props.state) + 1,
              iter |-> [branch |-> Some([b EXCEPT !.is_left = FALSE])]]
        ELSE [space |-> [b.space EXCEPT !.props =
                            Propagators_greater_than(@, Var(b.pivot), Cst(b.mid))],
              p |-> Len(b.space.props.state) + 1,
              iter |-> [branch |-> None]]

(***************************************************************************)
(* Mode (search/mode.rs).                                                  *)
(***************************************************************************)
Enumerate_mode == [kind |-> "Enumerate"]
Minimize_new(objective) ==
    [kind |-> "Minimize", objective |-> objective, minimum_opt |-> None]

\* Mode::on_branch as the default of the trait has it: nothing is posted, whatever
\* the best objective value found so far.
on_branch_default(mode, space) == [space |-> space, ps |-> <<>>]

\* Mode::on_branch: the space with the propagators added, and their ids.
on_branch(mode, space) ==
    IF mode.kind = "Minimize" /\ mode.minimum_opt # None
    THEN [space |-> [space EXCEPT !.props =
                        Propagators_less_than(@, mode.objective, Cst(mode.minimum_opt[1]))],
          ps |-> <<Len(space.props.state) + 1>>]
    ELSE [space |-> space, ps |-> <<>>]

\* Mode::on_solution
on_solution(mode, vs) ==
    IF mode.kind = "Minimize"
    THEN [mode EXCEPT !.minimum_opt = Some(min_raw(mode.objective, vs))]
    ELSE mode

(***************************************************************************)
(* State.                                                                  *)
(***************************************************************************)
VARIABLES
    vars,      \* Model.vars: the declared domains
    props,     \* Model.props: the posted propagators and their dependencies
    pc,        \* "build", "search" or "done": where the caller stands
    call,      \* the entry point called and its objective, "none" while building
    search,    \* the search iterator: Search::Done or the engine's stack and mode
    yielded,   \* the solutions the iterator has yielded so far, in order
    result     \* what solve, minimize or maximize returned, None for no solution

state_vars == <<vars, props, pc, call, search, yielded, result>>

(***************************************************************************)
(* Model building (model.rs).                                              *)
(***************************************************************************)
\* Number of variables declared with new_var (the others come from add and sum).
NumDeclared == Len(vars) - Cardinality({p \in DOMAIN props.state :
                                            props.state[p].kind \in {"Add", "Sum"}})

VarViews == {Var(v) : v \in DOMAIN vars}
DerivedViews == {opposite(Var(v)) : v \in DOMAIN vars}
                    \cup {times(Var(v), 2) : v \in DOMAIN vars}
                    \cup {times(Var(v), -1) : v \in DOMAIN vars}
CstViews == {Cst(1)}
\* Second operands offered with a first operand x: a constant or another variable.
Others(x) == CstViews \cup {w \in VarViews : Some(w.v) # get_underlying_var(x)}

Building == pc = "build"
CanPost == Building /\ Len(props.state) < MaxProps /\ Len(vars) >= 1

\* The model under construction, and the model after a building method.
ViewsModel == [vars |-> vars, props |-> props]

Built(m) ==
    /\ vars' = m.vars
    /\ props' = m.props
    /\ UNCHANGED <<pc, call, search, yielded, result>>

\* Model::new_var_unchecked: the model with one more variable (its id is the new
\* length of the store).
new_var_unchecked(m, min, max) ==
    [vars |-> new_var_with_bounds(m.vars, min, max), props |-> on_new_var(m.props)]

\* Model::new_var, were it to accept min = max.
Model_new_var_lenient(m, min, max) ==
    IF min <= max
    THEN [model |-> new_var_unchecked(m, min, max), ret |-> Some(Len(m.vars) + 1)]
    ELSE [model |-> m, ret |-> None]

\* Model::new_var: the model it leaves and the Option<VarId> it returns.
Model_new_var(m, min, max) ==
    IF min < max
    THEN [model |-> new_var_unchecked(m, min, max), ret |-> Some(Len(m.vars) + 1)]
    ELSE [model |-> m, ret |-> None]

\* The iterator Model::new_vars returns, repeat_with(new_var_unchecked).take(n): the
\* calls left to it and the bounds its closure holds. It borrows the model, which
\* no other method can be called on while the iterator lives.
NewVars(n, min, max) == [left |-> n, min |-> min, max |-> max]

\* Iterator::next on the iterator it: the model it leaves, the id it yields and the
\* iterator left.
NewVars_next(m, it) ==
    IF it.left = 0 THEN [model |-> m, ret |-> None, iter |-> it]
    ELSE [model |-> new_var_unchecked(m, it.min, it.max),
          ret |-> Some(Len(m.vars) + 1),
          iter |-> [it EXCEPT !.left = @ - 1]]

\* The model after k calls of next on the iterator it.
RECURSIVE repeat_new_var_unchecked(_, _, _)
repeat_new_var_unchecked(m, k, it) ==
    IF k = 0 THEN m
    ELSE repeat_new_var_unchecked(NewVars_next(m, it).model, k - 1, NewVars_next(m, it).iter)

\* Model::new_vars: the model, which the call leaves as it is, and the iterator it
\* returns, or None.
Model_new_vars(m, n, min, max) ==
    IF min < max
    THEN [model |-> m, ret |-> Some(NewVars(n, min, max))]
    ELSE [model |-> m, ret |-> None]

\* Model::new_vars_binary: the iterator of n binary variables, returned always.
Model_new_vars_binary(m, n) == [model |-> m, ret |-> NewVars(n, 0, 1)]

\* No call is in progress on the model.
NoCall == [api |-> "none", objective |-> None]

\* The caller holds the iterator it of the method api.
Iterating(api, it) ==
    /\ pc' = "new_vars"
    /\ call' = [api |-> api, objective |-> None, iter |-> it]
    /\ UNCHANGED <<vars, props, search, yielded, result>>

\* Model::new_var
new_var(min, max) ==
    /\ Building
    /\ NumDeclared < MaxVars
    /\ Built(Model_new_var(ViewsModel, min, max).model)

\* Model::new_vars: the caller is handed an iterator, or None and goes on building.
new_vars(n, min, max) ==
    /\ Building
    /\ NumDeclared + n <= MaxVars
    /\ IF Model_new_vars(ViewsModel, n, min, max).ret # None
       THEN Iterating("new_vars", Model_new_vars(ViewsModel, n, min, max).ret[1])
       ELSE UNCHANGED state_vars

\* Model::new_vars_binary
new_vars_binary(n) ==
    /\ Building
    /\ NumDeclared + n <= MaxVars
    /\ Iterating("new_vars_binary", Model_new_vars_binary(ViewsModel, n).ret)

\* The caller takes the next variable of the iterator it holds.
new_vars_next ==
    /\ pc = "new_vars"
    /\ vars' = NewVars_next(ViewsModel, call.iter).model.vars
    /\ props' = NewVars_next(ViewsModel, call.iter).model.props
    /\ call' = [call EXCEPT !.iter = NewVars_next(ViewsModel, call.iter).iter]
    /\ UNCHANGED <<pc, search, yielded, result>>

\* The caller drops the iterator, drained or not, and goes on building.
new_vars_drop ==
    /\ pc = "new_vars"
    /\ pc' = "build"
    /\ call' = NoCall
    /\ UNCHANGED <<vars, props, search, yielded, result>>

\* Model::add
add(x, y) ==
    /\ CanPost
    /\ LET min == min_raw(x, vars) + min_raw(y, vars)
           max == max_raw(x, vars) + max_raw(y, vars)
           s   == Len(vars) + 1
       IN  /\ vars' = new_var_with_bounds(vars, min, max)
           /\ props' = Propagators_add(on_new_var(props), x, y, s)
    /\ UNCHANGED <<pc, call, search, yielded, result>>

\* Model::sum
sum(xs) ==
    /\ CanPost
    /\ LET min == SeqSum([i \in DOMAIN xs |-> min_raw(xs[i], vars)])
           max == SeqSum([i \in DOMAIN xs |-> max_raw(xs[i], vars)])
           s   == Len(vars) + 1
       IN  /\ vars' = new_var_with_bounds(vars, min, max)
           /\ props' = Propagators_sum(on_new_var(props), xs, s)
    /\ UNCHANGED <<pc, call, search, yielded, result>>

\* Model::equals
equals(x, y) ==
    /\ CanPost
    /\ props' = Propagators_equals(props, x, y)
    /\ UNCHANGED <<vars, pc, call, search, yielded, result>>

\* Model::less_than_or_equals
less_than_or_equals(x, y) ==
    /\ CanPost
    /\ props' = Propagators_less_than_or_equals(props, x, y)
    /\ UNCHANGED <<vars, pc, call, search, yielded, result>>

\* Model::less_than
less_than(x, y) ==
    /\ CanPost
    /\ props' = Propagators_less_than(props, x, y)
    /\ UNCHANGED <<vars, pc, call, search, yielded, result>>

\* Model::greater_than_or_equals
greater_than_or_equals(x, y) ==
    /\ CanPost
    /\ props' = Propagators_greater_than_or_equals(props, x, y)
    /\ UNCHANGED <<vars, pc, call, search, yielded, result>>

\* Model::greater_than
greater_than(x, y) ==
    /\ CanPost
    /\ props' = Propagators_greater_than(props, x, y)
    /\ UNCHANGED <<vars, pc, call, search, yielded, result>>

(***************************************************************************)
(* Search driver.  `search` runs the initial propagation with every        *)
(* registered propagator scheduled; the engine then explores, depth first, *)
(* a stack of branch iterators.                                            *)
(***************************************************************************)
\* search(vars, props, mode): the iterator it returns.
\* r is the outcome of the initial propagation.
search_from(r, mode) ==
    CASE r.status = "Failed" -> [tag |-> "Done", space |-> None]
      [] r.status = "Assigned" -> [tag |-> "Done", space |-> Some(r.space)]
      [] r.status = "Stalled" ->
            [tag |-> "Stalled", stack |-> <<split_on_unassigned(r.space)>>,
             mode |-> mode]

search_new(vs, ps, mode) ==
    search_from(propagate(Space(vs, ps), with_props(get_prop_ids_iter(ps))), mode)

StartSearch(api, objective, mode) ==
    /\ Building
    /\ Len(vars) >= 1
    /\ call' = [api |-> api, objective |-> objective]
    /\ search' = search_new(vars, props, mode)
    /\ pc' = "search"
    /\ UNCHANGED <<vars, props, yielded, result>>

\* Model::enumerate, consumed to its end
enumerate == StartSearch("enumerate", None, Enumerate_mode)

\* Model::solve: enumerate().next()
solve == StartSearch("solve", None, Enumerate_mode)

\* Model::minimize: minimize_and_iterate(objective).last()
minimize(objective) ==
    StartSearch("minimize", Some(objective), Minimize_new(objective))

\* Model::maximize: minimize(objective.opposite())
maximize(objective) ==
    StartSearch("maximize", Some(objective), Minimize_new(opposite(objective)))

\* What the caller does with a solution the iterator yields.
Yield(sol) ==
    /\ yielded' = Append(yielded, sol)
    /\ IF call.api = "solve"
       THEN pc' = "done" /\ result' = Some(sol)
       ELSE UNCHANGED <<pc, result>>

\* What the caller does when the iterator ends: last() of what was yielded.
Exhausted ==
    /\ pc' = "done"
    /\ result' = IF yielded = <<>> THEN None ELSE Some(yielded[Len(yielded)])

\* Search::next on Search::Done: the space of the initial propagation, once.
SearchDoneNext ==
    /\ pc = "search"
    /\ search.tag = "Done"
    /\ IF search.space # None
       THEN /\ Yield(into_solution(search.space[1].vars))
            /\ search' = [search EXCEPT !.space = None]
       ELSE /\ Exhausted
            /\ UNCHANGED <<search, yielded>>
    /\ UNCHANGED <<vars, props, call>>

\* The child space is propagated with the propagators the mode posted (ob, the
\* outcome of on_branch) scheduled first, the propagator p of the branch after them.
propagate_child(ob, p) == propagate(ob.space, with_props(ob.ps \o <<p>>))

\* What the engine does with the outcome r of the propagation of a child; stk is the
\* stack with the iterator on top advanced.
EngineSettle(r, stk) ==
    CASE r.status = "Failed" ->
            /\ search' = [search EXCEPT !.stack = stk]
            /\ UNCHANGED <<pc, yielded, result>>
      [] r.status = "Assigned" ->
            /\ search' = [search EXCEPT
                            !.stack = stk,
                            !.mode = on_solution(search.mode, r.space.vars)]
            /\ Yield(into_solution(r.space.vars))
      [] r.status = "Stalled" ->
            /\ search' = [search EXCEPT
                            !.stack = Append(stk, split_on_unassigned(r.space))]
            /\ UNCHANGED <<pc, yielded, result>>

\* The engine takes the child n of the iterator on top of the stack.
EngineTake(n) ==
    EngineSettle(propagate_child(on_branch(search.mode, n.space), n.p),
                 [search.stack EXCEPT ![Len(search.stack)] = n.iter])

\* The engine takes the next child of the iterator on top of the stack.
EngineBranch ==
    /\ pc = "search"
    /\ search.tag = "Stalled"
    /\ search.stack # <<>>
    /\ search.stack[Len(search.stack)].branch # None
    /\ EngineTake(SplitOnUnassigned_next(search.stack[Len(search.stack)]))
    /\ UNCHANGED <<vars, props, call>>

\* The iterator on top of the stack is exhausted: the engine goes back to its parent.
EnginePop ==
    /\ pc = "search"
    /\ search.tag = "Stalled"
    /\ search.stack # <<>>
    /\ search.stack[Len(search.stack)].branch = None
    /\ search' = [search EXCEPT !.stack = SubSeq(@, 1, Len(@) - 1)]
    /\ UNCHANGED <<vars, props, pc, call, yielded, result>>

\* The stack is empty: the iterator ends.
EngineEnd ==
    /\ pc = "search"
    /\ search.tag = "Stalled"
    /\ search.stack = <<>>
    /\ Exhausted
    /\ UNCHANGED <<vars, props, call, search, yielded>>

Domains == 0..MaxVal

Init ==
    /\ vars = <<>>
    /\ props = Propagators_default
    /\ pc = "build"
    /\ call = [api |-> "none", objective |-> None]
    /\ search = [tag |-> "None"]
    /\ yielded = <<>>
    /\ result = None

Build ==
    \/ \E min \in Domains, max \in Domains : new_var(min, max)
    \/ \E n \in 0..MaxVars, min \in Domains, max \in Domains : new_vars(n, min, max)
    \/ \E n \in 0..MaxVars : new_vars_binary(n)
    \/ new_vars_next
    \/ new_vars_drop
    \/ \E x \in VarViews : \E y \in Others(x) : add(x, y)
    \/ \E x \in VarViews, y \in VarViews : x.v < y.v /\ sum(<<times(x, 2), y>>)
    \/ \E x \in VarViews \cup DerivedViews : \E y \in Others(x) : equals(x, y)
    \/ \E x \in VarViews : \E y \in Others(x) : less_than_or_equals(x, y)
    \/ \E x \in VarViews : \E y \in Others(x) : less_than(x, y)
    \/ \E x \in VarViews : \E y \in Others(x) : greater_than_or_equals(x, y)
    \/ \E x \in VarViews : \E y \in Others(x) : greater_than(x, y)

Engine == SearchDoneNext \/ EngineBranch \/ EnginePop \/ EngineEnd

Next ==
    \/ Build
    \/ enumerate
    \/ solve
    \/ \E objective \in VarViews : minimize(objective)
    \/ \E objective \in VarViews : maximize(objective)
    \/ Engine

Spec == Init /\ [][Next]_state_vars

(***************************************************************************)
(* The searcher generation.                                                *)
(*                                                                         *)
(* Domain store (vars.rs): Vars is [vars, events, failed]; vars is the     *)
(* sequence of domains, events the hash set of changed variables, and      *)
(* failed stands for Err(Failed): a failed store passes through the calls  *)
(* that follow it (the `?` of the callers).                                *)
(***************************************************************************)
Vars_new(vs) == [vars |-> vs, events |-> {}, failed |-> FALSE]

Err(vs) == [vs EXCEPT !.failed = TRUE]

\* ensure_min_leq_max(min, max) is Ok
ensure_min_leq_max(min, max) == ~(min > max)

\* Var::try_set is Ok
Var_try_set_ok(var, value) == ~(value < var.min \/ value > var.max)

Vars_try_set(vs, id, value) ==
    IF vs.failed THEN vs
    ELSE IF ~Var_try_set_ok(vs.vars[id], value) THEN Err(vs)
    ELSE [vs EXCEPT !.vars[id] = [min |-> value, max |-> value],
                    !.events = IF is_set(vs.vars[id]) THEN @ ELSE @ \cup {id}]

\* Vars::try_set_min, were it to record an event for a bound it does not change.
Vars_try_set_min_eager(vs, id, min) ==
    IF vs.failed THEN vs
    ELSE IF ~ensure_min_leq_max(min, vs.vars[id].max) THEN Err(vs)
    ELSE [vs EXCEPT !.vars[id].min = max_of(min, @), !.events = @ \cup {id}]

Vars_try_set_min(vs, id, min) ==
    IF vs.failed THEN vs
    ELSE IF ~ensure_min_leq_max(min, vs.vars[id].max) THEN Err(vs)
    ELSE IF min > vs.vars[id].min
         THEN [vs EXCEPT !.vars[id].min = min, !.events = @ \cup {id}]
         ELSE vs

\* Vars::try_set_max, were it to assign the bound without comparing it to the current one.
Vars_try_set_max_assign(vs, id, max) ==
    IF vs.failed THEN vs
    ELSE IF ~ensure_min_leq_max(vs.vars[id].min, max) THEN Err(vs)
    ELSE [vs EXCEPT !.vars[id].max = max,
                    !.events = IF max # vs.vars[id].max THEN @ \cup {id} ELSE @]

Vars_try_set_max(vs, id, max) ==
    IF vs.failed THEN vs
    ELSE IF ~ensure_min_leq_max(vs.vars[id].min, max) THEN Err(vs)
    ELSE IF max < vs.vars[id].max
         THEN [vs EXCEPT !.vars[id].max = max, !.events = @ \cup {id}]
         ELSE vs

Vars_try_set_min_and_max(vs, id, min, max) ==
    IF vs.failed THEN vs
    ELSE IF ~ensure_min_leq_max(min, max) THEN Err(vs)
    ELSE Vars_try_set_max(Vars_try_set_min(vs, id, min), id, max)

\* get_assignment_if_all_variables_are_set, were it never to find an assignment.
get_assignment_never(vs) == None

\* Vars::get_assignment_if_all_variables_are_set
get_assignment_if_all_variables_are_set(vs) ==
    IF \A v \in DOMAIN vs.vars : is_set(vs.vars[v])
    THEN Some([v \in DOMAIN vs.vars |-> vs.vars[v].min])
    ELSE None

(***************************************************************************)
(* Integer arithmetic of the propagators (props.rs, utils.rs).             *)
(***************************************************************************)
abs(a) == IF a < 0 THEN -a ELSE a

\* The `/` and `%` of i32: the quotient is truncated toward zero.
i32_div(a, b) ==
    IF (a >= 0) = (b > 0) THEN abs(a) \div abs(b) ELSE -(abs(a) \div abs(b))
i32_rem(a, b) == a - b * i32_div(a, b)

\* i32::rem_euclid
rem_euclid(a, b) == a % abs(b)

\* The value next_multiple_of_tmp returns for a remainder m of self by rhs.
next_multiple_from(self, rhs, m) == IF m = 0 THEN self ELSE self + (rhs - m)

\* The remainder r of self by rhs, brought to the sign of rhs.
signed_rem(r, rhs) ==
    IF (r > 0 /\ rhs < 0) \/ (r < 0 /\ rhs > 0) THEN r + rhs ELSE r

\* NumExt::next_multiple_of_tmp, were the remainder not brought to the sign of rhs.
next_multiple_of_truncated(self, rhs) ==
    IF rhs = -1 THEN self
    ELSE next_multiple_from(self, rhs, i32_rem(self, rhs))

\* NumExt::next_multiple_of_tmp
next_multiple_of_tmp(self, rhs) ==
    IF rhs = -1 THEN self
    ELSE next_multiple_from(self, rhs, signed_rem(i32_rem(self, rhs), rhs))

(***************************************************************************)
(* Propagators of the searcher generation (props.rs).  Each propagate      *)
(* first computes its bounds from the store it is given, then sets them.   *)
(***************************************************************************)
\* PropScalePos::propagate, once min and max are computed.
PropScalePos_set(x, y, coef, min, max, vs) ==
    Vars_try_set_min_and_max(Vars_try_set_min_and_max(vs, x, min, max),
                             y, min * coef, max * coef)

PropScalePos_propagate(d, vs) ==
    PropScalePos_set(d[1], d[2], d[3],
        max_of(vs.vars[d[1]].min,
               i32_div(next_multiple_of_tmp(vs.vars[d[2]].min, d[3]), d[3])),
        min_of(vs.vars[d[1]].max,
               i32_div(vs.vars[d[2]].max - rem_euclid(vs.vars[d[2]].max, d[3]), d[3])),
        vs)

\* PropScaleNeg::propagate, once min and max are computed.
PropScaleNeg_set(x, y, coef, min, max, vs) ==
    Vars_try_set_min_and_max(Vars_try_set_min_and_max(vs, x, min, max),
                             y, max * coef, min * coef)

PropScaleNeg_propagate(d, vs) ==
    PropScaleNeg_set(d[1], d[2], d[3],
        max_of(vs.vars[d[1]].min,
               i32_div(vs.vars[d[2]].max - rem_euclid(vs.vars[d[2]].max, -d[3]), d[3])),
        min_of(vs.vars[d[1]].max,
               i32_div(next_multiple_of_tmp(vs.vars[d[2]].min, -d[3]), d[3])),
        vs)

\* PropPlus::propagate, once the new bounds of x, y and p are computed.
PropPlus_set(p, x, y, x_min_new, x_max_new, y_min_new, y_max_new, min, max, vs) ==
    Vars_try_set_min_and_max(
        Vars_try_set_min_and_max(
            Vars_try_set_min_and_max(vs, x, x_min_new, x_max_new),
            y, y_min_new, y_max_new),
        p, min, max)

\* PropPlus::propagate, once min and max are computed.
PropPlus_bounds(p, x, y, min, max, vs) ==
    PropPlus_set(p, x, y,
                 min - vs.vars[y].max, max - vs.vars[y].min,
                 min - vs.vars[x].max, max - vs.vars[x].min,
                 min, max, vs)

PropPlus_propagate(d, vs) ==
    PropPlus_bounds(d[1], d[2][1], d[2][2],
        max_of(vs.vars[d[2][1]].min + vs.vars[d[2][2]].min, vs.vars[d[1]].min),
        min_of(vs.vars[d[2][1]].max + vs.vars[d[2][2]].max, vs.vars[d[1]].max),
        vs)

\* PropSum::propagate, the loop over the terms xs[i..].
RECURSIVE PropSum_terms(_, _, _, _, _, _, _)
PropSum_terms(xs, i, min, max, sum_of_mins, sum_of_maxs, vs) ==
    IF i > Len(xs) \/ vs.failed THEN vs
    ELSE PropSum_terms(xs, i + 1, min, max, sum_of_mins, sum_of_maxs,
             Vars_try_set_min_and_max(vs, xs[i],
                 min - (sum_of_maxs - vs.vars[xs[i]].max),
                 max - (sum_of_mins - vs.vars[xs[i]].min)))

\* PropSum::propagate, once min and max are computed.
PropSum_set(s, xs, min, max, sum_of_mins, sum_of_maxs, vs) ==
    PropSum_terms(xs, 1, min, max, sum_of_mins, sum_of_maxs,
                  Vars_try_set_min_and_max(vs, s, min, max))

\* PropSum::propagate, once the bounds of the terms are summed.
PropSum_bounds(s, xs, sum_of_mins, sum_of_maxs, vs) ==
    PropSum_set(s, xs, max_of(sum_of_mins, vs.vars[s].min),
                min_of(sum_of_maxs, vs.vars[s].max), sum_of_mins, sum_of_maxs, vs)

PropSum_propagate(d, vs) ==
    PropSum_bounds(d[1], d[2],
        SeqSum([i \in DOMAIN d[2] |-> vs.vars[d[2][i]].min]),
        SeqSum([i \in DOMAIN d[2] |-> vs.vars[d[2][i]].max]),
        vs)

\* PropEq::propagate, were it to narrow x alone.
PropEq_set_x_alone(x, y, min, max, vs) == Vars_try_set_min_and_max(vs, x, min, max)

\* PropEq::propagate, once min and max are computed.
PropEq_set(x, y, min, max, vs) ==
    Vars_try_set_min_and_max(Vars_try_set_min_and_max(vs, x, min, max), y, min, max)

PropEq_propagate(d, vs) ==
    PropEq_set(d[1], d[2],
               max_of(vs.vars[d[1]].min, vs.vars[d[2]].min),
               min_of(vs.vars[d[1]].max, vs.vars[d[2]].max), vs)

PropLeq_propagate(d, vs) ==
    Vars_try_set_max(vs, d[1], min_of(vs.vars[d[1]].max, vs.vars[d[2]].max))

\* A propagator the user of the library defines (impl Propagate): this one keeps the
\* variable x at or above min.
AtLeast_new(x, min) == [x |-> x, min |-> min]
AtLeast_propagate(c, vs) == Vars_try_set_min(vs, c.x, c.min)

\* PropId: the kind of a propagator and its index among those of its kind.
PropId(kind, i) == [kind |-> kind, i |-> i]

\* Deps: per variable, the propagators to schedule (vars); per kind, the variables
\* and coefficients of each propagator (props).
Deps_default ==
    [vars |-> <<>>, scale_pos |-> <<>>, scale_neg |-> <<>>, plus |-> <<>>,
     sum |-> <<>>, eq |-> <<>>, leq |-> <<>>, custom |-> <<>>]

\* The match of Searcher::propagate on the kind of the propagator id.
propagate_prop(deps, id, vs) ==
    CASE id.kind = "ScalePos" -> PropScalePos_propagate(deps.scale_pos[id.i], vs)
      [] id.kind = "ScaleNeg" -> PropScaleNeg_propagate(deps.scale_neg[id.i], vs)
      [] id.kind = "Plus" -> PropPlus_propagate(deps.plus[id.i], vs)
      [] id.kind = "Sum" -> PropSum_propagate(deps.sum[id.i], vs)
      [] id.kind = "Eq" -> PropEq_propagate(deps.eq[id.i], vs)
      [] id.kind = "Leq" -> PropLeq_propagate(deps.leq[id.i], vs)
      [] id.kind = "Custom" -> AtLeast_propagate(deps.custom[id.i], vs)

(***************************************************************************)
(* Model building of the searcher generation (model/mod.rs).  A model is   *)
(* [vars, deps]; the variable an expression creates is the last of vars.   *)
(***************************************************************************)
Model_new == [vars |-> <<>>, deps |-> Deps_default]

Model_new_var_impl(m, min, max) ==
    [vars |-> Append(m.vars, [min |-> min, max |-> max]),
     deps |-> [m.deps EXCEPT !.vars = Append(@, <<>>)]]

Model_cst_impl(m, value) == Model_new_var_impl(m, value, value)

\* self.deps.vars[x].push(id)
push_dep(m, x, id) == [m EXCEPT !.deps.vars[x] = Append(@, id)]

\* scale_pos after the variable s of the expression is created (the last of m.vars).
scale_pos_register(m, x, coef) ==
    push_dep(push_dep([m EXCEPT !.deps.scale_pos = Append(@, <<x, Len(m.vars), coef>>)],
                      x, PropId("ScalePos", Len(m.deps.scale_pos) + 1)),
             Len(m.vars), PropId("ScalePos", Len(m.deps.scale_pos) + 1))

Model_scale_pos(m, x, coef) ==
    scale_pos_register(
        Model_new_var_impl(m, m.vars[x].min * coef, m.vars[x].max * coef), x, coef)

\* scale_neg after the variable s of the expression is created.
scale_neg_register(m, x, coef) ==
    push_dep(push_dep([m EXCEPT !.deps.scale_neg = Append(@, <<x, Len(m.vars), coef>>)],
                      x, PropId("ScaleNeg", Len(m.deps.scale_neg) + 1)),
             Len(m.vars), PropId("ScaleNeg", Len(m.deps.scale_neg) + 1))

Model_scale_neg(m, x, coef) ==
    scale_neg_register(
        Model_new_var_impl(m, m.vars[x].max * coef, m.vars[x].min * coef), x, coef)

Model_scale_impl(m, x, coef) ==
    IF coef < 0 THEN Model_scale_neg(m, x, coef)
    ELSE IF coef = 0 THEN Model_cst_impl(m, 0)
    ELSE Model_scale_pos(m, x, coef)

Model_opposite_impl(m, x) == Model_scale_neg(m, x, -1)

\* plus_impl after the variable of the expression is created: the propagator is
\* pushed to the dependents of x and of y.
plus_register(m, x, y) ==
    push_dep(push_dep([m EXCEPT !.deps.plus = Append(@, <<Len(m.vars), <<x, y>>>>)],
                      x, PropId("Plus", Len(m.deps.plus) + 1)),
             y, PropId("Plus", Len(m.deps.plus) + 1))

Model_plus_impl(m, x, y) ==
    plus_register(
        Model_new_var_impl(m, m.vars[x].min + m.vars[y].min, m.vars[x].max + m.vars[y].max),
        x, y)

\* The loop of sum_impl that pushes the propagator id to the dependents of each term.
RECURSIVE push_deps(_, _, _)
push_deps(m, xs, id) ==
    IF xs = <<>> THEN m ELSE push_deps(push_dep(m, Head(xs), id), Tail(xs), id)

\* sum_impl after the variable of the expression is created.
sum_register(m, xs) ==
    push_deps([m EXCEPT !.deps.sum = Append(@, <<Len(m.vars), xs>>)],
              xs, PropId("Sum", Len(m.deps.sum) + 1))

Model_sum_impl(m, xs) ==
    sum_register(
        Model_new_var_impl(m, SeqSum([i \in DOMAIN xs |-> m.vars[xs[i]].min]),
                              SeqSum([i \in DOMAIN xs |-> m.vars[xs[i]].max])),
        xs)

Model_eq_impl(m, x, y) ==
    push_dep(push_dep([m EXCEPT !.deps.eq = Append(@, <<x, y>>)],
                      x, PropId("Eq", Len(m.deps.eq) + 1)),
             y, PropId("Eq", Len(m.deps.eq) + 1))

Model_leq_impl(m, x, y) ==
    push_dep(push_dep([m EXCEPT !.deps.leq = Append(@, <<x, y>>)],
                      x, PropId("Leq", Len(m.deps.leq) + 1)),
             y, PropId("Leq", Len(m.deps.leq) + 1))

\* Model::propagator_impl: the id is pushed to the dependents of each variable of
\* deps, then the propagator is stored.
Model_propagator_impl(m, prop, deps) ==
    [push_deps(m, deps, PropId("Custom", Len(m.deps.custom) + 1))
        EXCEPT !.deps.custom = Append(@, prop)]

(***************************************************************************)
(* Branching of the searcher generation (search/branch/*.rs).  The default *)
(* brancher picks the first unset variable and sets it to each value of    *)
(* its domain.  A brancher is the position of its picker in the variable   *)
(* ids; a space is [vars, brancher].                                       *)
(***************************************************************************)
Searcher_Space(vs, brancher) == [vars |-> vs, brancher |-> brancher]

\* Brancher::from_vars
Brancher_from_vars(vs) == 1

\* FirstUnset::pick from position pos: the pivot found, if any, and the position
\* the picker is left at.
RECURSIVE FirstUnset_pick(_, _)
\* FirstUnset::pick, were it to return the variable at its position without testing it.
FirstUnset_pick_untested(pos, vs) ==
    IF pos > Len(vs.vars) THEN [pivot |-> None, pos |-> pos]
    ELSE [pivot |-> Some(pos), pos |-> pos]

FirstUnset_pick(pos, vs) ==
    IF pos > Len(vs.vars) THEN [pivot |-> None, pos |-> pos]
    ELSE IF ~is_set(vs.vars[pos]) THEN [pivot |-> Some(pos), pos |-> pos]
    ELSE FirstUnset_pick(pos + 1, vs)

Mutation_Set(val) == [kind |-> "Set", val |-> val]

Choice_new(pivot, mutation) == [pivot |-> pivot, mutation |-> mutation]

\* SetMinToMax::branch_on: the values of the domain of the pivot, from max to min.
SetMinToMax_branch_on(pivot) ==
    [k \in 1..(pivot.max - pivot.min + 1) |-> Mutation_Set(pivot.max - k + 1)]

\* The tasks Stack::push_tasks pushes for a space whose picker found pivot.
tasks_of(space, pivot, mutations) ==
    [k \in DOMAIN mutations |->
        [choice |-> Choice_new(pivot, mutations[k]), space |-> space]]

\* Stack::push_tasks once the picker has run: picked is what it returns.
push_picked(tasks, space, picked) ==
    IF picked.pivot = None THEN tasks
    ELSE tasks \o tasks_of([space EXCEPT !.brancher = picked.pos], picked.pivot[1],
                           SetMinToMax_branch_on(space.vars.vars[picked.pivot[1]]))

\* Stack::push_tasks
push_tasks(tasks, space) ==
    push_picked(tasks, space, FirstUnset_pick(space.brancher, space.vars))

(***************************************************************************)
(* Searcher (search/mod.rs).                                               *)
(***************************************************************************)
\* The agenda of Searcher::propagate_with_all_props.
all_props(deps) ==
    [i \in DOMAIN deps.scale_pos |-> PropId("ScalePos", i)]
        \o [i \in DOMAIN deps.scale_neg |-> PropId("ScaleNeg", i)]
        \o [i \in DOMAIN deps.plus |-> PropId("Plus", i)]
        \o [i \in DOMAIN deps.sum |-> PropId("Sum", i)]
        \o [i \in DOMAIN deps.eq |-> PropId("Eq", i)]
        \o [i \in DOMAIN deps.leq |-> PropId("Leq", i)]

\* The orders in which drain_events may yield the members of the hash set.
drain_orders(events) ==
    {o \in [1..Cardinality(events) -> events] :
        \A i, j \in DOMAIN o : i # j => o[i] # o[j]}

RECURSIVE schedule_in_order(_, _, _), schedule_in_front(_, _, _)
\* schedule_props_from_domain_changes, were it to push to the front of the agenda.
schedule_in_front(deps, order, agenda) ==
    IF order = <<>> THEN agenda
    ELSE schedule_in_front(deps, Tail(order), deps.vars[Head(order)] \o agenda)

\* Searcher::schedule_props_from_domain_changes, the events drained in this order.
\* The agenda, were only the dependents of the first event drained scheduled.
schedule_first_drained(deps, order, agenda) ==
    IF order = <<>> THEN agenda ELSE agenda \o deps.vars[Head(order)]

schedule_in_order(deps, order, agenda) ==
    IF order = <<>> THEN agenda
    ELSE schedule_in_order(deps, Tail(order), agenda \o deps.vars[Head(order)])

\* The store once its events are drained.
drained(vs) == [vs EXCEPT !.events = {}]

\* A mutation that leaves the store as it is.
mutate_none(choice, vs) == vs

\* The mutation of a choice, applied to a store.
mutate(choice, vs) ==
    CASE choice.mutation.kind = "Set" -> Vars_try_set(vs, choice.pivot, choice.mutation.val)
      [] choice.mutation.kind = "Min" -> Vars_try_set_min(vs, choice.pivot, choice.mutation.val)
      [] choice.mutation.kind = "Max" -> Vars_try_set_max(vs, choice.pivot, choice.mutation.val)

\* The pruning of the objective against the best value found so far.
tighten(obj, obj_opt, vs) ==
    IF obj_opt # None THEN Vars_try_set_max(vs, obj, obj_opt[1] - 1) ELSE vs

\* The store mutate_then_propagate hands to propagate, events still in it.
mutate_then_tighten(choice, obj, obj_opt, vs) == tighten(obj, obj_opt, mutate(choice, vs))

(***************************************************************************)
(* The searcher generation as a state machine.  It uses the same state:    *)
(* vars is Model.vars, props is Model.deps, call is the entry point with   *)
(* the objective variable and is_exhaustive, result what the entry point   *)
(* returns, and search is the engine: [solution, tasks, run], run being    *)
(* the propagation in flight, if any: [space, agenda, initial].  pc is     *)
(* "model" while the model is built, "searcher" during the search and      *)
(* "returned" after it.                                                    *)
(***************************************************************************)
TheModel == [vars |-> vars, deps |-> props]

NumProps == Len(props.scale_pos) + Len(props.scale_neg) + Len(props.plus)
                + Len(props.sum) + Len(props.eq) + Len(props.leq) + Len(props.custom)

Modelling == pc = "model"
\* Variables are declared before the first expression or constraint is posted.
CanDeclare == Modelling /\ NumProps = 0 /\ Len(vars) < MaxVars
CanConstrain == Modelling /\ Len(vars) >= 1 /\ NumProps < MaxProps

\* The model after a building method.
SetModel(m) ==
    /\ vars' = m.vars
    /\ props' = m.deps
    /\ UNCHANGED <<pc, call, search, yielded, result>>

\* Model::new_var and Model::cst (a constant is a variable declared with min = max)
new_var_impl(min, max) == CanDeclare /\ SetModel(Model_new_var_impl(TheModel, min, max))

\* Model::scale
scale_impl(x, coef) == CanConstrain /\ SetModel(Model_scale_impl(TheModel, x, coef))

\* Model::plus
plus_impl(x, y) == CanConstrain /\ SetModel(Model_plus_impl(TheModel, x, y))

\* Model::sum
sum_impl(xs) == CanConstrain /\ SetModel(Model_sum_impl(TheModel, xs))

\* Model::eq
eq_impl(x, y) == CanConstrain /\ SetModel(Model_eq_impl(TheModel, x, y))

\* Model::leq
leq_impl(x, y) == CanConstrain /\ SetModel(Model_leq_impl(TheModel, x, y))

\* Model::propagator
propagator_impl(prop, deps) ==
    CanConstrain /\ SetModel(Model_propagator_impl(TheModel, prop, deps))

\* Searcher::search up to the call of propagate_with_all_props, on the model m.
Searcher_search(m, api, obj, is_exhaustive) ==
    /\ Modelling
    /\ Len(vars) >= 1
    /\ vars' = m.vars
    /\ props' = m.deps
    /\ call' = [api |-> api, obj |-> obj, is_exhaustive |-> is_exhaustive]
    /\ search' = [solution |-> None, tasks |-> <<>>,
                  run |-> Some([space |-> Searcher_Space(Vars_new(m.vars),
                                                         Brancher_from_vars(m.vars)),
                                agenda |-> all_props(m.deps),
                                initial |-> TRUE])]
    /\ pc' = "searcher"
    /\ UNCHANGED <<yielded, result>>

\* Model::solve: the objective is a constant created for the search.
solve_impl ==
    Searcher_search(Model_cst_impl(TheModel, 0), "solve", Len(vars) + 1, FALSE)

\* Model::minimize
minimize_impl(obj) == Searcher_search(TheModel, "minimize", obj, TRUE)

\* Model::maximize: the objective is the opposite of obj, created for the search.
maximize_impl(obj) ==
    Searcher_search(Model_scale_impl(TheModel, obj, -1), "maximize", Len(vars) + 1, TRUE)

Searching == pc = "searcher"
InFlight == Searching /\ search.run # None
TheRun == search.run[1]

\* The search returns r.
Return(r) ==
    /\ pc' = "returned"
    /\ result' = r

\* Searcher::propagate, a turn of the loop whose propagator left the store vs.
Searcher_after_prop(vs, rest) ==
    IF vs.failed
    THEN /\ search' = [search EXCEPT !.run = None]
         /\ IF TheRun.initial THEN Return(None) ELSE UNCHANGED <<pc, result>>
    ELSE /\ \E order \in drain_orders(vs.events) :
                search' = [search EXCEPT
                    !.run = Some([TheRun EXCEPT
                                    !.space.vars = drained(vs),
                                    !.agenda = schedule_in_order(props, order, rest)])]
         /\ UNCHANGED <<pc, result>>

\* Searcher::propagate, a turn of the loop: the propagator at the front of the agenda
\* runs and the dependents of the variables it changed are pushed to the back.
Searcher_propagate ==
    /\ InFlight
    /\ TheRun.agenda # <<>>
    /\ Searcher_after_prop(propagate_prop(props, Head(TheRun.agenda), TheRun.space.vars),
                           Tail(TheRun.agenda))
    /\ UNCHANGED <<vars, props, call, yielded>>

\* Stack::search on Propagated::Done(candidate).
Stack_done(candidate) ==
    IF TheRun.initial \/ ~call.is_exhaustive
    THEN /\ Return(Some(candidate))
         /\ search' = [search EXCEPT !.run = None]
    ELSE /\ search' = [search EXCEPT
                !.run = None,
                !.solution = IF search.solution = None
                                \/ candidate[call.obj] < search.solution[1][call.obj]
                             THEN Some(candidate) ELSE @]
         /\ UNCHANGED <<pc, result>>

\* Stack::search on Propagated::Fixed(space).
Stack_fixed(space) ==
    /\ search' = [search EXCEPT !.run = None, !.tasks = push_tasks(@, space)]
    /\ UNCHANGED <<pc, result>>

\* Searcher::propagate once the agenda is empty, and what the engine does with what
\* it returns; assignment is the assignment of the space, if all its variables are set.
Searcher_propagated_with(assignment) ==
    IF assignment # None THEN Stack_done(assignment[1]) ELSE Stack_fixed(TheRun.space)

Searcher_propagated ==
    /\ InFlight
    /\ TheRun.agenda = <<>>
    /\ Searcher_propagated_with(get_assignment_if_all_variables_are_set(TheRun.space.vars))
    /\ UNCHANGED <<vars, props, call, yielded>>

\* The tasks left, were the space of the popped task shared with its siblings and
\* mutated in place instead of cloned.
tasks_sharing(space, vs) ==
    [i \in 1..(Len(search.tasks) - 1) |->
        IF search.tasks[i].space = space
        THEN [search.tasks[i] EXCEPT !.space.vars = drained(vs)]
        ELSE search.tasks[i]]

\* Stack::search after the task on top is popped, were the space not cloned.
Stack_mutated_in_place(space, vs) ==
    IF vs.failed
    THEN search' = [search EXCEPT !.tasks = tasks_sharing(space, vs)]
    ELSE \E order \in drain_orders(vs.events) :
            search' = [search EXCEPT
                !.tasks = tasks_sharing(space, vs),
                !.run = Some([space |-> [space EXCEPT !.vars = drained(vs)],
                              agenda |-> schedule_in_order(props, order, <<>>),
                              initial |-> FALSE])]

\* Stack::search after the task on top is popped: vs is its space after the mutation
\* and the pruning of the objective.
Stack_mutated(space, vs) ==
    IF vs.failed
    THEN search' = [search EXCEPT !.tasks = SubSeq(@, 1, Len(@) - 1)]
    ELSE \E order \in drain_orders(vs.events) :
            search' = [search EXCEPT
                !.tasks = SubSeq(@, 1, Len(@) - 1),
                !.run = Some([space |-> [space EXCEPT !.vars = drained(vs)],
                              agenda |-> schedule_in_order(props, order, <<>>),
                              initial |-> FALSE])]

\* The best objective value found so far.
obj_opt == IF search.solution = None THEN None ELSE Some(search.solution[1][call.obj])

\* Stack::search, a turn of the loop up to the call of propagate.
Stack_pop_task(task) ==
    Stack_mutated(task.space,
                  mutate_then_tighten(task.choice, call.obj, obj_opt, task.space.vars))

Stack_pop ==
    /\ Searching
    /\ search.run = None
    /\ search.tasks # <<>>
    /\ Stack_pop_task(search.tasks[Len(search.tasks)])
    /\ UNCHANGED <<vars, props, pc, call, yielded, result>>

\* Stack::search once no task is left.
Stack_end ==
    /\ Searching
    /\ search.run = None
    /\ search.tasks = <<>>
    /\ Return(search.solution)
    /\ UNCHANGED <<vars, props, call, search, yielded>>

\* Bounds and coefficients offered to the building methods.
Coefs == {-1, 2}

InitSearcher ==
    /\ vars = <<>>
    /\ props = Deps_default
    /\ pc = "model"
    /\ call = [api |-> "none"]
    /\ search = [tag |-> "None"]
    /\ yielded = <<>>
    /\ result = None

BuildSearcher ==
    \/ \E min \in Domains, max \in Domains : new_var_impl(min, max)
    \/ \E x \in DOMAIN vars, coef \in Coefs : scale_impl(x, coef)
    \/ \E x \in DOMAIN vars, y \in DOMAIN vars : x <= y /\ plus_impl(x, y)
    \/ \E x \in DOMAIN vars : sum_impl(<<x>>)
    \/ \E x \in DOMAIN vars, y \in DOMAIN vars : x < y /\ sum_impl(<<x, y>>)
    \/ \E x \in DOMAIN vars, y \in DOMAIN vars : x < y /\ eq_impl(x, y)
    \/ \E x \in DOMAIN vars, y \in DOMAIN vars : x # y /\ leq_impl(x, y)

StackEngine == Searcher_propagate \/ Searcher_propagated \/ Stack_pop \/ Stack_end

NextSearcher ==
    \/ BuildSearcher
    \/ solve_impl
    \/ \E obj \in DOMAIN vars : minimize_impl(obj)
    \/ \E obj \in DOMAIN vars : maximize_impl(obj)
    \/ StackEngine

SpecSearcher == InitSearcher /\ [][NextSearcher]_state_vars

\* Models with propagators of the user: variables, the ordering of two of them and
\* lower bounds enforced by a custom propagator.
BuildCustom ==
    \/ \E min \in Domains, max \in Domains : new_var_impl(min, max)
    \/ \E x \in DOMAIN vars, y \in DOMAIN vars : x # y /\ leq_impl(x, y)
    \/ \E x \in DOMAIN vars, min \in Domains : propagator_impl(AtLeast_new(x, min), <<x>>)

NextCustom ==
    \/ BuildCustom
    \/ solve_impl
    \/ \E obj \in DOMAIN vars : minimize_impl(obj)
    \/ \E obj \in DOMAIN vars : maximize_impl(obj)
    \/ StackEngine

SpecCustom == InitSearcher /\ [][NextCustom]_state_vars

(***************************************************************************)
(* What a model means: the total assignments within the declared domains   *)
(* that satisfy every posted constraint.                                   *)
(***************************************************************************)
RECURSIVE eval(_, _)
eval(w, a) ==
    CASE w.tag = "i32" -> w.c
      [] w.tag = "Zero" -> 0
      [] w.tag = "VarId" -> a[w.v]
      [] w.tag = "Opposite" -> -eval(w.x, a)
      [] w.tag = "Plus" -> eval(w.x, a) + w.offset
      [] w.tag = "TimesPos" -> eval(w.x, a) * w.scale_pos

Satisfies(a, p) ==
    CASE p.kind = "Equals" -> eval(p.x, a) = eval(p.y, a)
      [] p.kind = "LessThanOrEquals" -> eval(p.x, a) <= eval(p.y, a)
      [] p.kind = "Add" -> eval(p.x, a) + eval(p.y, a) = a[p.s]
      [] p.kind = "Sum" -> SeqSum([i \in DOMAIN p.xs |-> eval(p.xs[i], a)]) = a[p.s]

RECURSIVE Assignments(_)
Assignments(vs) ==
    IF vs = <<>> THEN {<<>>}
    ELSE LET n == Len(vs)
         IN  {Append(a, k) : a \in Assignments(SubSeq(vs, 1, n - 1)),
                             k \in vs[n].min .. vs[n].max}

Feasible(vs, ps) ==
    {a \in Assignments(vs) : \A p \in DOMAIN ps.state : Satisfies(a, ps.state[p])}

NoDuplicates(s) == \A i, j \in DOMAIN s : i # j => s[i] # s[j]

Finished(api) == pc = "done" /\ call.api = api

\* C1: enumerate() yields every satisfying assignment of the model, nothing that
\* violates a posted constraint, and nothing twice.
C1_EnumerateExact ==
    Finished("enumerate") =>
        /\ Range(yielded) = Feasible(vars, props)
        /\ NoDuplicates(yielded)

\* Smallest element of a non-empty set of integers.
SetMin(S) == CHOOSE m \in S : \A k \in S : m <= k
SetMax(S) == CHOOSE m \in S : \A k \in S : m >= k

\* C2: solve() returns an assignment exactly when the model is feasible, and what
\* it returns satisfies every posted constraint.
C2_SolveIffFeasible ==
    Finished("solve") =>
        /\ (result # None) <=> (Feasible(vars, props) # {})
        /\ result # None => result[1] \in Feasible(vars, props)

\* C3: minimize(obj) returns a satisfying assignment of least objective value on a
\* feasible model, and none on an infeasible one.
C3_MinimizeOptimal ==
    Finished("minimize") =>
        LET F == Feasible(vars, props)
            obj == call.objective[1]
        IN  IF F = {} THEN result = None
            ELSE /\ result # None
                 /\ result[1] \in F
                 /\ eval(obj, result[1]) = SetMin({eval(obj, a) : a \in F})

\* C4: maximize(obj) returns a satisfying assignment of greatest objective value.
C4_MaximizeOptimal ==
    Finished("maximize") =>
        LET F == Feasible(vars, props)
            obj == call.objective[1]
        IN  IF F = {} THEN result = None
            ELSE /\ result # None
                 /\ result[1] \in F
                 /\ eval(obj, result[1]) = SetMax({eval(obj, a) : a \in F})

\* C5: while minimizing, every yielded solution has an objective value strictly
\* smaller than that of every solution yielded before it.
C5_YieldsStrictlyImprove ==
    (pc # "build" /\ call.api \in {"minimize", "maximize"}) =>
        LET obj == IF call.api = "minimize" THEN call.objective[1]
                   ELSE opposite(call.objective[1])
        IN  \A i, j \in DOMAIN yielded :
                i < j => eval(obj, yielded[j]) < eval(obj, yielded[i])

\* A minimisation has yielded at least two solutions: the second one comes from a
\* branch whose parent space was stored before the first one was found.
C5_Witness ==
    /\ call.api \in {"minimize", "maximize"}
    /\ Len(yielded) >= 2

(***************************************************************************)
(* Domains of the spaces of the searcher generation.                       *)
(***************************************************************************)
\* Every domain of the sequence of variables vs has min <= max.
NonEmpty(vs) == \A i \in DOMAIN vs : vs[i].min <= vs[i].max

\* No bound of new is wider than in old.
Narrowed(old, new) ==
    /\ Len(new) = Len(old)
    /\ \A i \in DOMAIN old : new[i].min >= old[i].min /\ new[i].max <= old[i].max

\* new is old with at least one domain strictly smaller.
Shrunk(old, new) == Narrowed(old, new) /\ new # old

\* The domains of the space under propagation, and of the space of the task on top.
RunVars == TheRun.space.vars.vars
TopTask == search.tasks[Len(search.tasks)]

\* C6: in every space (the model being built, the space under propagation, the
\* spaces of the pending tasks) every variable has min <= max.
C6_DomainsNonEmpty ==
    pc \in {"model", "searcher", "returned"} =>
        /\ NonEmpty(vars)
        /\ InFlight => NonEmpty(RunVars)
        /\ Searching => \A i \in DOMAIN search.tasks : NonEmpty(search.tasks[i].space.vars.vars)

\* C7: no step within a space widens a domain: neither the run of a propagator,
\* nor the mutation of a branch with the pruning of the objective that follows it.
C7_StepsNarrow ==
    [][/\ (InFlight /\ InFlight') => Narrowed(RunVars, RunVars')
       /\ (Searching /\ search.run = None /\ search.tasks # <<>> /\ InFlight')
            => Narrowed(TopTask.space.vars.vars, RunVars')]_state_vars

\* A branch was taken and propagation in its space has narrowed a variable other
\* than the pivot below its domain in the model.
C7_Witness ==
    /\ InFlight
    /\ ~TheRun.initial
    /\ Cardinality({i \in DOMAIN vars : RunVars[i] # vars[i]}) >= 2

(***************************************************************************)
(* Searcher::propagate under every order of the events.  The loop pops the *)
(* front of the agenda and schedules the dependents of the changed         *)
(* variables in the order in which the hash set yields them; Outcomes is   *)
(* what the loop can return: a failure, or the domains once the agenda is  *)
(* empty.                                                                  *)
(***************************************************************************)
Outcome_failed == [failed |-> TRUE, vars |-> <<>>]
Outcome_fixed(vs) == [failed |-> FALSE, vars |-> vs.vars]

RECURSIVE Outcomes(_, _, _)
\* The propagator popped left the store vs, rest is the agenda without it.
Outcomes_after(deps, vs, rest) ==
    IF vs.failed THEN {Outcome_failed}
    ELSE UNION {Outcomes(deps, drained(vs), schedule_in_order(deps, order, rest)) :
                    order \in drain_orders(vs.events)}

Outcomes(deps, vs, agenda) ==
    IF agenda = <<>> THEN {Outcome_fixed(vs)}
    ELSE Outcomes_after(deps, propagate_prop(deps, Head(agenda), vs), Tail(agenda))

\* C8: from a space and the propagators scheduled on it, propagation has one
\* result (a failure, or the bounds at the fixed point), whatever the order in
\* which the change events are drained.
C8_OneOutcome ==
    InFlight => Cardinality(Outcomes(props, TheRun.space.vars, TheRun.agenda)) = 1

\* C9: a run of a propagator that schedules anything strictly shrinks some domain
\* and widens none, so that each turn of the loop of propagate either shortens the
\* agenda or shrinks the domains, and the loop ends.
C9_RescheduleShrinks ==
    [][(InFlight /\ InFlight') =>
          \/ TheRun'.agenda = Tail(TheRun.agenda)
          \/ Shrunk(RunVars, RunVars')]_state_vars

\* The initial propagation has shrunk a domain and, with its first propagators
\* popped, holds as many propagators as it started with: some were scheduled again.
C9_Witness ==
    /\ InFlight
    /\ TheRun.initial
    /\ RunVars # vars
    /\ TheRun.agenda # all_props(props)
    /\ Len(TheRun.agenda) >= Len(all_props(props))

(***************************************************************************)
(* What is left of a search: the pending tasks and the propagation in      *)
(* flight, counted by the number of unset variables of their spaces.  A    *)
(* task whose space has u unset variables counts at level 2u, propagation  *)
(* at level 2u + 1: popping a task sets its pivot, and propagation ends    *)
(* with tasks on its own space.                                            *)
(***************************************************************************)
Unset(vs) == Cardinality({i \in DOMAIN vs : ~is_set(vs[i])})

Levels == 0..(2 * Len(vars) + 1)

TasksAt(k) ==
    Cardinality({i \in DOMAIN search.tasks :
                    2 * Unset(search.tasks[i].space.vars.vars) = k})

RunAt(k) == IF search.run # None /\ 2 * Unset(RunVars) + 1 = k THEN 1 ELSE 0

PendingAt(k) == TasksAt(k) + RunAt(k)

\* Less is pending after the step: fewer at some level, the same at every higher one.
FewerPending ==
    \E k \in Levels :
        /\ PendingAt(k)' < PendingAt(k)
        /\ \A j \in Levels : j > k => PendingAt(j)' = PendingAt(j)

SamePending == \A k \in Levels : PendingAt(k)' = PendingAt(k)

\* The sum of the widths of the domains under propagation.
Width(vs) == SeqSum([i \in DOMAIN vs |-> vs[i].max - vs[i].min])

\* A turn of propagation that leaves it closer to its end.
FewerTurns ==
    /\ InFlight /\ InFlight'
    /\ \/ Width(RunVars') < Width(RunVars)
       \/ /\ Width(RunVars') = Width(RunVars)
          /\ Len(TheRun'.agenda) < Len(TheRun.agenda)

\* C10: the search terminates: every step of the engine that does not return leaves
\* less to do (fewer pending branches, or the same with propagation closer to its
\* end), so the stack of pending branches empties and the search returns.  The
\* guards of the four steps of the engine cover every state of a search.
C10_SearchTerminates ==
    [][(Searching /\ Searching') => (FewerPending \/ (SamePending /\ FewerTurns))]_state_vars

\* An exhaustive search over a model without constraints, whose unset variable can
\* only be set by branching, has returned a solution.
C10_Witness ==
    /\ pc = "returned"
    /\ call.api = "minimize"
    /\ NumProps = 0
    /\ \E i \in DOMAIN vars : vars[i].min < vars[i].max
    /\ result # None

(***************************************************************************)
(* Variable creation.                                                      *)
(***************************************************************************)
\* The domains vs followed by n domains [min, max].
WithDomains(vs, n, min, max) == vs \o [k \in 1..n |-> [min |-> min, max |-> max]]

\* C11: new_var and new_vars (of the views generation) return a variable, or an
\* iterator of n variables, exactly when min < max; new_var then leaves the model
\* with one more domain [min, max], and the iterator of new_vars, which the call
\* itself only creates, adds one domain [min, max] for each variable taken from it
\* and n once drained; when min >= max they return none and leave the model as it
\* is. An iterator of new_vars that a caller holds has min < max.
C11_NewVarIffStrict ==
    /\ Building =>
        \A min \in Domains, max \in Domains :
            /\ Model_new_var(ViewsModel, min, max).ret # None <=> min < max
            /\ Model_new_var(ViewsModel, min, max).model.vars
                    = WithDomains(vars, IF min < max THEN 1 ELSE 0, min, max)
            /\ min >= max => Model_new_var(ViewsModel, min, max).model = ViewsModel
            /\ \A n \in 0..MaxVars :
                /\ Model_new_vars(ViewsModel, n, min, max).ret # None <=> min < max
                /\ Model_new_vars(ViewsModel, n, min, max).model = ViewsModel
                /\ min < max =>
                      \A k \in 0..MaxVars :
                          repeat_new_var_unchecked(ViewsModel, k,
                                  Model_new_vars(ViewsModel, n, min, max).ret[1]).vars
                              = WithDomains(vars, IF k < n THEN k ELSE n, min, max)
    /\ (pc = "new_vars" /\ call.api = "new_vars") => call.iter.min < call.iter.max

\* A caller has drained the iterator of new_vars(MaxVars, min, max) on a model that
\* had no variable: the model holds MaxVars domains [min, max].
C11_Witness ==
    /\ pc = "new_vars"
    /\ call.api = "new_vars"
    /\ call.iter.left = 0
    /\ vars = WithDomains(<<>>, MaxVars, call.iter.min, call.iter.max)

\* C12: the model-building API never appends a domain with min > max: the domain
\* store of a model under construction, of either generation, holds none.
C12_NoInvalidRange ==
    pc \in {"build", "model"} => \A i \in DOMAIN vars : ~(vars[i].min > vars[i].max)

(***************************************************************************)
(* Views over the stores of a search of the views generation.              *)
(***************************************************************************)
\* The stores at hand: the one of the model while it is built, the one of the space
\* on top of the stack of the engine during the search (the stores below it were on
\* top before it).
TopBranch == search.stack[Len(search.stack)].branch
Stores ==
    IF Building THEN {vars}
    ELSE IF pc = "search" /\ search.tag = "Stalled" /\ search.stack # <<>>
            /\ TopBranch # None
         THEN {TopBranch[1].space.vars}
         ELSE {}

\* The views over a store vs: its variables, a constant, and the opposite, the
\* offset and the scaling of each.
BaseViews(vs) == {Var(v) : v \in DOMAIN vs} \cup CstViews
ViewsOver(vs) ==
    BaseViews(vs)
        \cup {opposite(w) : w \in BaseViews(vs)}
        \cup {plus(w, 1) : w \in BaseViews(vs)}
        \cup {times_pos(w, 2) : w \in BaseViews(vs)}

\* The bounds handed to try_set_min and try_set_max: every value a variable of the
\* model can take, and one more on each side.
MaxBound == 3 * MaxVal + 1
BoundArgs == (-MaxBound)..MaxBound

\* C13: x.opposite().opposite() has the bounds of x, and a bound set through it
\* leaves the store, the events and the success or failure that setting it on x
\* leaves.
C13_OppositeOfOpposite ==
    \A vs \in Stores : \A x \in ViewsOver(vs) :
        /\ min_raw(opposite(opposite(x)), vs) = min_raw(x, vs)
        /\ max_raw(opposite(opposite(x)), vs) = max_raw(x, vs)
        /\ \A m \in BoundArgs :
            /\ try_set_min(opposite(opposite(x)), m, NewContext(vs, <<>>))
                    = try_set_min(x, m, NewContext(vs, <<>>))
            /\ try_set_max(opposite(opposite(x)), m, NewContext(vs, <<>>))
                    = try_set_max(x, m, NewContext(vs, <<>>))

\* The engine holds a space whose store the search has narrowed: views are compared
\* on it as well as on the store of the model.
C13_Witness ==
    /\ pc = "search"
    /\ \E vs \in Stores : \E v \in DOMAIN vs : vs[v] # vars[v]

(***************************************************************************)
(* Strict inequalities.                                                    *)
(***************************************************************************)
\* The propagator a posting method adds to the registry ps: the last of the
\* registry it returns.
Posted(ps) == ps.state[Len(ps.state)]

\* The propagator p has the shape less_than and greater_than post: x + 1 <= y.
IsStrict(p) == p.kind = "LessThanOrEquals" /\ p.x.tag = "Plus" /\ p.x.offset = 1

\* The assignments within the declared domains with x < y for every propagator
\* x + 1 <= y posted.
StrictSolutions ==
    {a \in Assignments(vars) :
        \A p \in DOMAIN props.state : eval(props.state[p].x.x, a) < eval(props.state[p].y, a)}

\* C14: the propagator less_than(x, y) posts is satisfied by exactly the assignments
\* with x < y, the one greater_than(x, y) posts by exactly those with x > y, and
\* less_than(x, y) posts what less_than_or_equals(x.plus(1), y) posts; enumerate on
\* a model whose one constraint is a strict inequality yields exactly the
\* assignments that satisfy it.
C14_StrictInequalities ==
    /\ Building =>
        \A x \in VarViews : \A y \in Others(x) :
            /\ \A a \in Assignments(vars) :
                /\ Satisfies(a, Posted(Propagators_less_than(props, x, y)))
                        <=> eval(x, a) < eval(y, a)
                /\ Satisfies(a, Posted(Propagators_greater_than(props, x, y)))
                        <=> eval(x, a) > eval(y, a)
            /\ Propagators_less_than(props, x, y)
                    = Propagators_less_than_or_equals(props, plus(x, 1), y)
    /\ (Finished("enumerate") /\ Len(props.state) = 1 /\ IsStrict(props.state[1])) =>
            /\ Range(yielded) = StrictSolutions
            /\ NoDuplicates(yielded)

\* enumerate has finished on a model with two variables and a strict inequality
\* between them, and has yielded a solution.
C14_Witness ==
    /\ Finished("enumerate")
    /\ Len(props.state) = 1
    /\ IsStrict(props.state[1])
    /\ props.state[1].y.tag = "VarId"
    /\ Len(yielded) >= 2

(***************************************************************************)
(* Scaling views in an equality with a constant (tests.rs, times_* tests): *)
(* models of up to MaxVars variables over signed domains with the one      *)
(* constraint equals(x.times(s), c), equals(x.times_pos(s), c) or          *)
(* equals(x.times_neg(s), c), then solved or enumerated.                   *)
(***************************************************************************)
MaxScale == 2
MaxCst == 4
Scales == (-MaxScale)..MaxScale
ScaledCsts == (-MaxCst)..MaxCst
SignedDomains == (-MaxVal)..MaxVal

\* m.equals(x.times(s), c), x.times_pos(s) and x.times_neg(s) on a fresh model.
equals_times(x, s, c) == props.state = <<>> /\ equals(times(x, s), Cst(c))
equals_times_pos(x, s, c) == props.state = <<>> /\ equals(times_pos(x, s), Cst(c))
equals_times_neg(x, s, c) == props.state = <<>> /\ equals(times_neg(x, s), Cst(c))

BuildTimes ==
    \/ \E min \in SignedDomains, max \in SignedDomains : new_var(min, max)
    \/ \E x \in VarViews, s \in Scales, c \in ScaledCsts : equals_times(x, s, c)
    \/ \E x \in VarViews, s \in 1..MaxScale, c \in ScaledCsts : equals_times_pos(x, s, c)
    \/ \E x \in VarViews, s \in (-MaxScale)..(-1), c \in ScaledCsts : equals_times_neg(x, s, c)

NextTimes ==
    \/ BuildTimes
    \/ enumerate
    \/ solve
    \/ Engine

SpecTimes == Init /\ [][NextTimes]_state_vars

\* The factor of a scaling view of a variable, as the model stores it.
ScaleOf(w) ==
    CASE w.tag = "Zero" -> 0
      [] w.tag = "TimesPos" /\ w.x.tag = "VarId" -> w.scale_pos
      [] w.tag = "TimesPos" /\ w.x.tag = "Opposite" -> -w.scale_pos

IsScaling(w) ==
    \/ w.tag = "Zero"
    \/ w.tag = "TimesPos" /\ w.x.tag = "VarId"
    \/ w.tag = "TimesPos" /\ w.x.tag = "Opposite" /\ w.x.x.tag = "VarId"

\* The model holds the one constraint equals(x * s, c).
TimesPosted ==
    /\ Len(props.state) = 1
    /\ props.state[1].kind = "Equals"
    /\ IsScaling(props.state[1].x)
    /\ props.state[1].y.tag = "i32"

\* S is the set of solutions: enumerate yielded exactly S, solve returned a member
\* of S, or none when S is empty.
Answers(S) ==
    /\ call.api = "enumerate" => Range(yielded) = S /\ NoDuplicates(yielded)
    /\ call.api = "solve" => (IF S = {} THEN result = None
                              ELSE result # None /\ result[1] \in S)

\* The initial propagation of the model at hand with the one constraint equals(w, c).
PropagatedWith(w, c) ==
    propagate(Space(vars, Propagators_equals(props, w, Cst(c))), with_props(<<1>>))

\* The initial propagation of equals(w, c), w being x scaled by s, does what
\* x * s = c asks: it fails when no value of x fits, fixes x to c/s otherwise, and
\* with s = 0 touches no domain when c = 0 and fails when c # 0.
ScalesAs(w, v, s, c) ==
    LET r == PropagatedWith(w, c)
        fits == {k \in vars[v].min .. vars[v].max : k * s = c}
    IN  IF s = 0
        THEN IF c = 0 THEN r.status # "Failed" /\ r.space.vars = vars
             ELSE r.status = "Failed"
        ELSE IF fits = {} THEN r.status = "Failed"
             ELSE /\ r.status # "Failed"
                  /\ r.space.vars = [vars EXCEPT ![v] = [min |-> SetMin(fits),
                                                        max |-> SetMin(fits)]]

\* C15: with the one constraint equals(x.times(s), c), s # 0: the solutions are
\* those with x = c/s when s divides c and c/s is in the domain of x, and there is
\* none otherwise; s = 0: every assignment is a solution when c = 0 and none is
\* when c # 0.  times_pos(s) and times_neg(s) build the view times(s) builds.
C15_TimesEquals ==
    /\ (Building /\ props.state = <<>>) =>
        \A v \in DOMAIN vars : \A c \in ScaledCsts :
            /\ \A s \in Scales : ScalesAs(times(Var(v), s), v, s, c)
            /\ \A s \in 1..MaxScale : ScalesAs(times_pos(Var(v), s), v, s, c)
            /\ \A s \in (-MaxScale)..(-1) : ScalesAs(times_neg(Var(v), s), v, s, c)
    /\ (pc = "done" /\ TimesPosted) =>
        LET s == ScaleOf(props.state[1].x)
            c == props.state[1].y.c
            x == get_underlying_var(props.state[1].x)
        IN  IF s = 0
            THEN Answers(IF c = 0 THEN Assignments(vars) ELSE {})
            ELSE Answers({a \in Assignments(vars) :
                            \E k \in SignedDomains : k * s = c /\ a[x[1]] = k})

\* A solve returned x = c/s for a negative factor, with a second variable left to
\* the branching.
C15_Witness ==
    /\ Finished("solve")
    /\ TimesPosted
    /\ ScaleOf(props.state[1].x) = -2
    /\ Len(vars) = 2
    /\ result # None
    /\ result[1][get_underlying_var(props.state[1].x)[1]] = -1

\* The propagation in flight is about to return Fixed (Stalled in the words of the
\* specification): its agenda is empty and a variable is still unset.
ReturnsFixed ==
    /\ InFlight
    /\ TheRun.agenda = <<>>
    /\ get_assignment_if_all_variables_are_set(TheRun.space.vars) = None

\* The propagator id, run on the store vs, succeeds and changes no bound.
AtFixedPoint(id, vs) ==
    LET after == propagate_prop(props, id, vs)
    IN  ~after.failed /\ after.vars = vs.vars

\* C16: when propagation returns Stalled, no change event is left unconsumed and
\* running any registered propagator on the returned space succeeds and changes
\* no domain bound.
C16_StalledIsFixedPoint ==
    ReturnsFixed =>
        /\ TheRun.space.vars.events = {}
        /\ \A id \in Range(all_props(props)) : AtFixedPoint(id, TheRun.space.vars)

\* The variables the propagator id reads and narrows: its operands and, for scale,
\* plus and sum, the variable of the expression.
UsedBy(id) ==
    CASE id.kind = "ScalePos" -> {props.scale_pos[id.i][1], props.scale_pos[id.i][2]}
      [] id.kind = "ScaleNeg" -> {props.scale_neg[id.i][1], props.scale_neg[id.i][2]}
      [] id.kind = "Plus" -> {props.plus[id.i][1], props.plus[id.i][2][1], props.plus[id.i][2][2]}
      [] id.kind = "Sum" -> {props.sum[id.i][1]} \cup Range(props.sum[id.i][2])
      [] id.kind = "Eq" -> {props.eq[id.i][1], props.eq[id.i][2]}
      [] id.kind = "Leq" -> {props.leq[id.i][1], props.leq[id.i][2]}

\* C17: every propagator is in the dependents list of every variable it uses, as
\* an operand or as its result, so that a change of a bound of the variable
\* schedules it.
C17_DependentsComplete ==
    pc \in {"model", "searcher", "returned"} =>
        \A id \in Range(all_props(props)) :
            \A v \in UsedBy(id) : id \in Range(props.vars[v])

\* Every registered propagator, of every kind.
Registered(deps) ==
    Range(all_props(deps)) \cup {PropId("Custom", i) : i \in DOMAIN deps.custom}

\* How many times id is on the agenda a.
Occurrences(a, id) == Cardinality({i \in DOMAIN a : a[i] = id})

\* C18: the agenda the initial propagation starts from holds every registered
\* propagator, custom ones included, exactly once.
C18_InitialAgendaHoldsAll ==
    [][(pc = "model" /\ pc' = "searcher") =>
            \A id \in Registered(props') : Occurrences(search'.run[1].agenda, id) = 1]_state_vars

\* C19: the agenda of a propagation in flight never holds the same propagator
\* twice: the dependents of a changed variable are scheduled only if they are not
\* on the agenda already.
C19_AgendaHoldsEachOnce ==
    InFlight => NoDuplicates(TheRun.agenda)

(***************************************************************************)
(* The agenda on its own (search/agenda.rs): an agenda built by with_props *)
(* and then driven by any sequence of schedule and pop calls.  search is   *)
(* the agenda, call the last call made on it and result what the last pop  *)
(* returned.                                                               *)
(***************************************************************************)
MaxIds == 4
AgendaIds == 1..MaxIds

\* Agenda::with_props on zero, one or two propagators
InitAgenda ==
    /\ vars = <<>>
    /\ props = Propagators_default
    /\ pc = "agenda"
    /\ call = [api |-> "with_props"]
    /\ search \in {with_props(ps) : ps \in {<<>>} \cup {<<p>> : p \in AgendaIds}
                                        \cup {<<p, r>> : p \in AgendaIds, r \in AgendaIds}}
    /\ yielded = <<>>
    /\ result = None

\* Agenda::schedule
Agenda_schedule(p) ==
    /\ pc = "agenda"
    /\ Len(search.q) <= MaxIds
    /\ search' = schedule(search, p)
    /\ call' = [api |-> "schedule", p |-> p]
    /\ UNCHANGED <<vars, props, pc, yielded, result>>

\* Agenda::pop: None on an empty queue (the `?` on pop_front)
Agenda_pop ==
    /\ pc = "agenda"
    /\ call' = [api |-> "pop"]
    /\ IF search.q = <<>>
       THEN result' = None /\ UNCHANGED search
       ELSE result' = Some(pop(search).p) /\ search' = pop(search).agenda
    /\ UNCHANGED <<vars, props, pc, yielded>>

NextAgenda ==
    \/ \E p \in AgendaIds : Agenda_schedule(p)
    \/ Agenda_pop

SpecAgenda == InitAgenda /\ [][NextAgenda]_state_vars

\* The queue and the set of the agenda a hold the same propagators, each once in
\* the queue.
QueueMatchesSet(a) == Range(a.q) = a.h /\ NoDuplicates(a.q)

\* What a call of schedule(p) does to the agenda a, b being the agenda after it.
ScheduleEffect(a, p, b) ==
    IF p \in a.h THEN b = a
    ELSE b.q = Append(a.q, p) /\ b.h = a.h \cup {p}

\* What a call of pop does to the agenda a, b being the agenda after it and r what
\* the call returned.
PopEffect(a, r, b) ==
    IF a.q = <<>> THEN r = None /\ b = a
    ELSE /\ r = Some(Head(a.q))
         /\ b.q = Tail(a.q)
         /\ r[1] \notin b.h
         /\ r[1] \notin Range(b.q)
         /\ b.h = a.h \ {r[1]}

\* C20: through any sequence of schedule and pop calls, the queue and the set hold
\* the same propagators, each once in the queue; schedule of a propagator on the
\* agenda changes nothing; pop removes the propagator it returns from both.
C20_AgendaQueueAndSet ==
    [][/\ QueueMatchesSet(search)
       /\ QueueMatchesSet(search')
       /\ call'.api = "schedule" => ScheduleEffect(search, call'.p, search')
       /\ call'.api = "pop" => PopEffect(search, result', search')]_state_vars

\* schedule(p) was called with p on the agenda, behind another propagator: p is
\* not the last of the queue, so the call did not push it.
C20_Witness ==
    /\ pc = "agenda"
    /\ call.api = "schedule"
    /\ call.p \in search.h
    /\ Len(search.q) >= 3
    /\ search.q[1] = call.p

\* The sequence s is the beginning of the sequence t.
IsPrefix(s, t) == Len(s) <= Len(t) /\ SubSeq(t, 1, Len(s)) = s

\* C21: within one call of propagate the propagators run in the order in which
\* they were placed on the agenda: a turn of the loop takes the propagator at the
\* front, and what it schedules goes behind the propagators that were waiting.
C21_RunsInFifoOrder ==
    [][(InFlight /\ InFlight') =>
            IsPrefix(Tail(TheRun.agenda), TheRun'.agenda)]_state_vars

\* A propagation after a branch holds two different propagators, the second of
\* which was scheduled while the first was waiting.
C21_Witness ==
    /\ InFlight
    /\ ~TheRun.initial
    /\ Len(TheRun.agenda) >= 2
    /\ TheRun.agenda[1] # TheRun.agenda[2]

\* Every domain of the sequence of variables vs is a singleton.
AllSet(vs) == \A v \in DOMAIN vs : is_set(vs[v])

(***************************************************************************)
(* The loop of propagate, were it to return as soon as a propagator leaves *)
(* every domain assigned, whatever is left on the agenda: what it would    *)
(* return from a store and an agenda, over every drain order.              *)
(***************************************************************************)
RECURSIVE EarlyOutcomes(_, _, _)
EarlyOutcomes_after(deps, vs, rest) ==
    IF vs.failed THEN {Outcome_failed}
    ELSE IF AllSet(vs.vars) THEN {Outcome_fixed(vs)}
    ELSE UNION {EarlyOutcomes(deps, drained(vs), schedule_in_order(deps, order, rest)) :
                    order \in drain_orders(vs.events)}

EarlyOutcomes(deps, vs, agenda) ==
    IF agenda = <<>> THEN {Outcome_fixed(vs)}
    ELSE EarlyOutcomes_after(deps, propagate_prop(deps, Head(agenda), vs), Tail(agenda))

\* C22, as stated: the loop returns what a loop would that stops as soon as a
\* propagator has left every domain assigned, even with propagators on the agenda.
C22_ReturnsAssignedEarly ==
    InFlight => Outcomes(props, TheRun.space.vars, TheRun.agenda)
                    = EarlyOutcomes(props, TheRun.space.vars, TheRun.agenda)

\* What the engine does with Done(assignment) of the space under propagation.
DoneEffect ==
    /\ search'.tasks = search.tasks
    /\ IF TheRun.initial \/ ~call.is_exhaustive
       THEN pc' = "returned" /\ result' = Some([v \in DOMAIN RunVars |-> RunVars[v].min])
       ELSE pc' = pc /\ search'.solution # None

\* C22, amended: a call of propagate ends only on an empty agenda or on a
\* propagator that fails; on an empty agenda it returns Done (Assigned) when every
\* domain is assigned and Fixed (Stalled), on which the engine branches, when not.
\* A propagator left on the agenda of a fully assigned space is still run.
C22_ReturnsOnEmptyAgenda ==
    [][(InFlight /\ ~InFlight') =>
            IF TheRun.agenda = <<>>
            THEN IF AllSet(RunVars) THEN DoneEffect
                 ELSE search'.tasks = push_tasks(search.tasks, TheRun.space) /\ pc' = pc
            ELSE propagate_prop(props, Head(TheRun.agenda), TheRun.space.vars).failed]_state_vars

\* A propagation after a branch whose space is fully assigned and whose next
\* propagator fails it: the loop goes on and the space is discarded.
C22_Witness ==
    /\ InFlight
    /\ ~TheRun.initial
    /\ AllSet(RunVars)
    /\ TheRun.agenda # <<>>
    /\ propagate_prop(props, Head(TheRun.agenda), TheRun.space.vars).failed

(***************************************************************************)
(* Bounds set on the domain store.                                         *)
(***************************************************************************)
\* The store vs with the minimum of v raised to m, or the maximum lowered to m, when
\* that narrows the domain, and vs itself when it does not.
WithMin(vs, v, m) == IF m > vs[v].min THEN [vs EXCEPT ![v].min = m] ELSE vs
WithMax(vs, v, m) == IF m < vs[v].max THEN [vs EXCEPT ![v].max = m] ELSE vs

\* The change events of a call that turned the store vs into ws: v if it narrowed
\* the domain, none if it did not.
Recorded(vs, ws, v) == IF ws # vs THEN <<v>> ELSE <<>>

\* Context::try_set_min(v, m) and Vars::try_set_min(v, m) on the store vs do what the
\* claim says: c is the context the first leaves and r the store the second leaves.
MinAsClaimed(vs, v, m, c, r) ==
    IF m > vs[v].max THEN c.failed /\ r.failed
    ELSE /\ ~c.failed /\ ~r.failed
         /\ c.vars = WithMin(vs, v, m) /\ r.vars = WithMin(vs, v, m)
         /\ c.events = Recorded(vs, WithMin(vs, v, m), v)
         /\ r.events = Range(Recorded(vs, WithMin(vs, v, m), v))
         /\ c.ret = WithMin(vs, v, m)[v].min

MaxAsClaimed(vs, v, m, c, r) ==
    IF m < vs[v].min THEN c.failed /\ r.failed
    ELSE /\ ~c.failed /\ ~r.failed
         /\ c.vars = WithMax(vs, v, m) /\ r.vars = WithMax(vs, v, m)
         /\ c.events = Recorded(vs, WithMax(vs, v, m), v)
         /\ r.events = Range(Recorded(vs, WithMax(vs, v, m), v))
         /\ c.ret = WithMax(vs, v, m)[v].max

\* C23: try_set_min(v, m) fails if m > max(v); otherwise it sets min(v) = m and
\* records v if m > min(v), changes and records nothing if m <= min(v), and
\* returns the resulting min(v).  try_set_max is the mirror image.
C23_TrySetBounds ==
    \A vs \in Stores : \A v \in DOMAIN vs : \A m \in BoundArgs :
        /\ MinAsClaimed(vs, v, m, Context_try_set_min(v, m, NewContext(vs, <<>>)),
                        Vars_try_set_min(Vars_new(vs), v, m))
        /\ MaxAsClaimed(vs, v, m, Context_try_set_max(v, m, NewContext(vs, <<>>)),
                        Vars_try_set_max(Vars_new(vs), v, m))

\* The store at hand has a domain the search has narrowed to a singleton next to
\* one it has not: bounds below, within and above both are tried on it.
C23_Witness ==
    /\ pc = "search"
    /\ \E vs \in Stores : \E v, w \in DOMAIN vs :
            /\ vs[v].min = vs[v].max
            /\ vs[v] # vars[v]
            /\ vs[w].min < vs[w].max

(***************************************************************************)
(* Change events between two drains.                                       *)
(***************************************************************************)
\* The change events a run of the propagator p on the store vs leaves in a context
\* that held none: what the engine drains after the run.
EventsOf(p, vs) == prune(p, NewContext(vs, <<>>)).events

\* C24: between two drains a variable whose domain was narrowed is recorded once in
\* the change events, also when one propagator run narrows both its bounds: the
\* events hold no variable twice and no more entries than there are variables.
C24_EventsRecordedOnce ==
    \A vs \in Stores : \A i \in DOMAIN props.state :
        /\ NoDuplicates(EventsOf(props.state[i], vs))
        /\ Len(EventsOf(props.state[i], vs)) <= Len(vs)

(***************************************************************************)
(* What one run of a propagator does to the domains of its operands.       *)
(***************************************************************************)
\* x <= y pruned on the store vs (a sequence of domains), r being the store the
\* propagator leaves: a failure exactly when x.min > y.max, and otherwise x.max
\* lowered to min(x.max, y.max) and y.min raised to max(y.min, x.min).
LeqAsClaimed(x, y, vs, r) ==
    IF vs[x].min > vs[y].max THEN r.failed
    ELSE /\ ~r.failed
         /\ r.vars[x].max = min_of(vs[x].max, vs[y].max)
         /\ r.vars[y].min = max_of(vs[y].min, vs[x].min)

\* C25: a successful prune of Leq(x, y) lowers x.max to min(x.max, y.max) and raises
\* y.min to max(y.min, x.min), and the prune fails exactly when x.min > y.max; here
\* for every Leq of the model on the store under propagation, its domains non-empty.
C25_LeqPrunesBothSides ==
    (InFlight /\ NonEmpty(RunVars)) =>
        \A i \in DOMAIN props.leq :
            LeqAsClaimed(props.leq[i][1], props.leq[i][2], RunVars,
                         PropLeq_propagate(props.leq[i], TheRun.space.vars))

\* The interval [min, max] as a domain.
Interval(min, max) == [min |-> min, max |-> max]

\* x = y pruned on the store vs, r being the store the propagator leaves: a failure
\* exactly when [max(x.min, y.min), min(x.max, y.max)] is empty, and otherwise x and
\* y left with that domain and the other variables as they were.
EqAsClaimed(x, y, vs, r) ==
    IF max_of(vs[x].min, vs[y].min) > min_of(vs[x].max, vs[y].max) THEN r.failed
    ELSE /\ ~r.failed
         /\ r.vars = [v \in DOMAIN vs |->
                        IF v \in {x, y}
                        THEN Interval(max_of(vs[x].min, vs[y].min),
                                      min_of(vs[x].max, vs[y].max))
                        ELSE vs[v]]

\* C26: a successful prune of Equals(x, y) over two variables leaves both with the
\* domain [max(x.min, y.min), min(x.max, y.max)] of the bounds before the prune, and
\* the prune fails exactly when that interval is empty; here for PropEq::propagate
\* and for Equals::prune, on every two variables of the store under propagation
\* (Equals::prune on the stores whose domains are intervals, the only ones it meets).
C26_EqualsIntersects ==
    InFlight =>
        \A x, y \in DOMAIN RunVars :
            /\ EqAsClaimed(x, y, RunVars, PropEq_propagate(<<x, y>>, TheRun.space.vars))
            /\ NonEmpty(RunVars) =>
                    EqAsClaimed(x, y, RunVars,
                        Equals_prune(Equals_new(Var(x), Var(y)), NewContext(RunVars, <<>>)))

\* An Eq of the model is about to run on two domains that overlap in part, so that
\* it narrows both; and on two that do not meet, so that it fails.
EqMeets(d, vs) ==
    /\ vs[d[1]].min < vs[d[2]].min
    /\ vs[d[2]].min <= vs[d[1]].max
    /\ vs[d[1]].max < vs[d[2]].max

C26_Witness ==
    /\ InFlight
    /\ TheRun.agenda # <<>>
    /\ Head(TheRun.agenda).kind = "Eq"
    /\ EqMeets(props.eq[Head(TheRun.agenda).i], RunVars)

\* The intersection of two domains, whether a domain is empty, and whether the
\* domain d lies within the domain e.
Meet(d, e) == Interval(max_of(d.min, e.min), min_of(d.max, e.max))
IsEmpty(d) == d.min > d.max
Within(d, e) == d.min >= e.min /\ d.max <= e.max

\* What x + y = s allows, on the store vs before the prune: for s (AddSum) the
\* interval [x.min + y.min, x.max + y.max] within the domain of s, and for the
\* operand a next to the operand b (AddTerm), the bounds of the sum being those of
\* sd, the interval [s.min - b.max, s.max - b.min] within the domain of a.
AddSum(x, y, s, vs) ==
    Meet(Interval(vs[x].min + vs[y].min, vs[x].max + vs[y].max), vs[s])
AddTerm(a, b, sd, vs) ==
    Meet(Interval(sd.min - vs[b].max, sd.max - vs[b].min), vs[a])

\* x + y = s pruned on the store vs, r being the store the propagator leaves: a
\* failure when one of the three intersections is empty, and after a success s,
\* x and y each within its intersection.
AddWithin(x, y, s, sd, vs, r) ==
    IF IsEmpty(sd) \/ IsEmpty(AddTerm(x, y, sd, vs)) \/ IsEmpty(AddTerm(y, x, sd, vs))
    THEN r.failed
    ELSE ~r.failed =>
            /\ Within(r.vars[s], sd)
            /\ Within(r.vars[x], AddTerm(x, y, sd, vs))
            /\ Within(r.vars[y], AddTerm(y, x, sd, vs))

AddAsClaimed(x, y, s, vs, r) == AddWithin(x, y, s, AddSum(x, y, s, vs), vs, r)

\* C27: a successful prune of Add(x, y, s) leaves s within [x.min + y.min,
\* x.max + y.max], x within [s.min - y.max, s.max - y.min] and y within
\* [s.min - x.max, s.max - x.min], each within its domain before the prune, and the
\* prune fails whenever one of these is empty; here for every Plus of the model on
\* the store under propagation, for PropPlus::propagate and for Add::prune.
C27_AddPrunesAllThree ==
    InFlight =>
        \A i \in DOMAIN props.plus :
            /\ AddAsClaimed(props.plus[i][2][1], props.plus[i][2][2], props.plus[i][1],
                   RunVars, PropPlus_propagate(props.plus[i], TheRun.space.vars))
            /\ NonEmpty(RunVars) =>
                 AddAsClaimed(props.plus[i][2][1], props.plus[i][2][2], props.plus[i][1],
                     RunVars,
                     Add_prune(Add_new(Var(props.plus[i][2][1]), Var(props.plus[i][2][2]),
                                       props.plus[i][1]),
                               NewContext(RunVars, <<>>)))

(***************************************************************************)
(* The sum propagators on their own: a store of two terms x (1) and y (2)  *)
(* and a sum s (3), the terms of the propagator drawn among them, and one  *)
(* run of PropSum::propagate or of Sum::prune on it.  vars is the store    *)
(* before the run, props the propagator, call the run made and result the  *)
(* store it leaves.                                                         *)
(***************************************************************************)
MaxTerms == 2

\* The domains of a term and of the sum: the store of the searcher holds domains
\* with min > max too (new_var_impl accepts them).
TermDomains == {Interval(a, b) : a, b \in 0..MaxVal}
SumDomains == {Interval(a, b) : a, b \in 0..(MaxTerms * MaxVal)}

\* The terms: one variable, two variables, the same variable twice.
TermLists == {<<1>>, <<1, 2>>, <<1, 1>>}

InitSum ==
    /\ vars \in {<<x, y, s>> : x \in TermDomains, y \in TermDomains, s \in SumDomains}
    /\ props \in {[s |-> 3, xs |-> xs] : xs \in TermLists}
    /\ pc = "sum"
    /\ call = [api |-> "none"]
    /\ search = [tag |-> "None"]
    /\ yielded = <<>>
    /\ result = None

\* The propagator api has run and left r.
Ran(api, r) ==
    /\ pc = "sum"
    /\ call.api = "none"
    /\ call' = [api |-> api]
    /\ result' = Some([failed |-> r.failed, vars |-> r.vars])
    /\ UNCHANGED <<vars, props, pc, search, yielded>>

\* PropSum::propagate((s, xs), vars)
PropSum_run ==
    /\ vars # <<>>
    /\ Ran("PropSum", PropSum_propagate(<<props.s, props.xs>>, Vars_new(vars)))

\* Sum::prune of Sum::new(xs, s), on a store the views generation can hold
Sum_run ==
    /\ NonEmpty(vars)
    /\ Ran("Sum", Sum_prune(Sum_new([i \in DOMAIN props.xs |-> Var(props.xs[i])], props.s),
                            NewContext(vars, <<>>)))

NextSum == PropSum_run \/ Sum_run

SpecSum == InitSum /\ [][NextSum]_state_vars

\* L and U, the sums of the minima and of the maxima of the terms xs on the store
\* vs, and what is left of the domain of s within [L, U].
SumL(xs, vs) == SeqSum([i \in DOMAIN xs |-> vs[xs[i]].min])
SumU(xs, vs) == SeqSum([i \in DOMAIN xs |-> vs[xs[i]].max])
SumS(xs, s, vs) == Meet(Interval(SumL(xs, vs), SumU(xs, vs)), vs[s])

\* What the sum allows the term x, on the store vs before the prune, the bounds of
\* the sum being those of sd: [s.min - (U - x.max), s.max - (L - x.min)] within the
\* domain of x.
SumTerm(x, sd, L, U, vs) ==
    Meet(Interval(sd.min - (U - vs[x].max), sd.max - (L - vs[x].min)), vs[x])

\* Sum(xs, s) pruned on the store vs, r being the store the propagator leaves: a
\* failure when what is left of s or of a term is empty, and after a success s and
\* every term within what the sum allows it.
SumWithin(xs, s, sd, L, U, vs, r) ==
    IF IsEmpty(sd) \/ \E i \in DOMAIN xs : IsEmpty(SumTerm(xs[i], sd, L, U, vs))
    THEN r.failed
    ELSE ~r.failed =>
            /\ Within(r.vars[s], sd)
            /\ \A i \in DOMAIN xs : Within(r.vars[xs[i]], SumTerm(xs[i], sd, L, U, vs))

SumAsClaimed(xs, s, vs, r) ==
    SumWithin(xs, s, SumS(xs, s, vs), SumL(xs, vs), SumU(xs, vs), vs, r)

\* C28: a successful prune of Sum(xs, s), L and U being the sums of the minima and
\* of the maxima of the terms, leaves s within [L, U] and each term x_i within
\* [s.min - (U - x_i.max), s.max - (L - x_i.min)], a variable in two terms included,
\* and it fails whenever one of these is empty; the bounds of the terms are those
\* before the prune, those of s the ones the prune gives it, and the store is one
\* whose domains are all intervals.
C28_SumPrunesTerms ==
    (result # None /\ NonEmpty(vars)) =>
        SumAsClaimed(props.xs, props.s, vars, result[1])

(***************************************************************************)
(* Bounds set through a scaling view.                                      *)
(***************************************************************************)
\* The ceiling and the floor of the real quotient m / s, s > 0: the least integer
\* whose product with s reaches m, the greatest whose product does not pass it.
Ceiling(m, s) == CHOOSE q \in BoundArgs : q * s >= m /\ (q - 1) * s < m
Floor(m, s) == CHOOSE q \in BoundArgs : q * s <= m /\ (q + 1) * s > m

\* The context c is what setting the lower bound q on the variable v of the store
\* vs leaves, and what setting the upper bound q leaves.
LowerBoundSet(vs, v, q, c) ==
    IF q > vs[v].max THEN c.failed
    ELSE ~c.failed /\ c.vars = WithMin(vs, v, q)
                   /\ c.events = Recorded(vs, WithMin(vs, v, q), v)
UpperBoundSet(vs, v, q, c) ==
    IF q < vs[v].min THEN c.failed
    ELSE ~c.failed /\ c.vars = WithMax(vs, v, q)
                   /\ c.events = Recorded(vs, WithMax(vs, v, q), v)

\* C29: setting the lower bound m on TimesPos(x, s), s > 0, sets the lower bound
\* ceil(m / s) on x, and setting the upper bound M sets the upper bound
\* floor(M / s) on x, ceiling and floor being those of the real quotient for
\* negative as for positive m: ceil(-7 / 2) = -3 and floor(-7 / 2) = -4.
C29_TimesPosRoundsInwards ==
    /\ div_ceil(-7, 2) = -3
    /\ div_floor(-7, 2) = -4
    /\ \A v \in DOMAIN vars : \A s \in 1..MaxScale : \A m \in BoundArgs :
          /\ LowerBoundSet(vars, v, Ceiling(m, s),
                 try_set_min(times_pos(Var(v), s), m, NewContext(vars, <<>>)))
          /\ UpperBoundSet(vars, v, Floor(m, s),
                 try_set_max(times_pos(Var(v), s), m, NewContext(vars, <<>>)))

\* solve has run on x * 2 = -3 with x in [-2, 2]: the propagation has set the lower
\* bound ceil(-3 / 2) = -1 and the upper bound floor(-3 / 2) = -2 through the view,
\* and found no solution.
C29_Witness ==
    /\ Finished("solve")
    /\ TimesPosted
    /\ props.state[1].x = times_pos(Var(1), 2)
    /\ props.state[1].y.c = -3
    /\ vars[1] = Interval(-MaxVal, MaxVal)
    /\ result = None

(***************************************************************************)
(* Bounds set on a constant view.                                          *)
(***************************************************************************)
\* The change events a context may hold when a bound is set: none, or the variables
\* of the store vs.
EventsHeld(vs) == {<<>>, [v \in DOMAIN vs |-> v]}

\* The context c is ctx after a call that succeeded exactly when ok holds and
\* touched neither the domains nor the change events.
Untouched(ok, ctx, c) ==
    /\ c.failed <=> ~ok
    /\ c.vars = ctx.vars
    /\ c.events = ctx.events

\* C30: on a constant view c, try_set_min(m) succeeds exactly when m <= c and
\* try_set_max(M) exactly when M >= c, and neither changes a domain or records a
\* change event.
C30_ConstantViewIsInert ==
    \A vs \in Stores : \A events \in EventsHeld(vs) :
        \A c \in ScaledCsts : \A m \in BoundArgs :
            /\ Untouched(m <= c, NewContext(vs, events),
                         try_set_min(Cst(c), m, NewContext(vs, events)))
            /\ Untouched(m >= c, NewContext(vs, events),
                         try_set_max(Cst(c), m, NewContext(vs, events)))

\* solve has returned a solution of a model with a constraint equals(x, c), c a
\* constant: the propagation has set bounds on the constant view.
C30_Witness ==
    /\ Finished("solve")
    /\ result # None
    /\ \E i \in DOMAIN props.state :
            /\ props.state[i].kind = "Equals"
            /\ props.state[i].x.tag = "VarId"
            /\ props.state[i].y.tag = "i32"
            /\ result[1][props.state[i].x.v] = props.state[i].y.c

(***************************************************************************)
(* The value a bound-setting call returns.                                 *)
(***************************************************************************)
\* C31: on success try_set_min on a view returns the new minimum of that view and
\* try_set_max its new maximum, in the coordinates of the view: for a variable, a
\* constant, and the opposite, the offset and the scaling of each.
C31_ReturnsOwnBound ==
    \A vs \in Stores : \A w \in ViewsOver(vs) : \A m \in BoundArgs :
        /\ ~try_set_min(w, m, NewContext(vs, <<>>)).failed =>
              try_set_min(w, m, NewContext(vs, <<>>)).ret
                  = min_raw(w, try_set_min(w, m, NewContext(vs, <<>>)).vars)
        /\ ~try_set_max(w, m, NewContext(vs, <<>>)).failed =>
              try_set_max(w, m, NewContext(vs, <<>>)).ret
                  = max_raw(w, try_set_max(w, m, NewContext(vs, <<>>)).vars)

(***************************************************************************)
(* Branching of the views generation (search/branch.rs).                   *)
(***************************************************************************)
\* The engine is at a branching point: the iterator on top of its stack holds a
\* branch of which no child has been taken yet.
AtBranchingPoint ==
    /\ pc = "search"
    /\ search.tag = "Stalled"
    /\ search.stack # <<>>
    /\ TopBranch # None
    /\ TopBranch[1].is_left

\* The two children of the iterator it, in the order next yields them.
LeftChild(it) == SplitOnUnassigned_next(it)
RightChild(it) == SplitOnUnassigned_next(LeftChild(it).iter)

\* The store vs with the variable v set to the value k.
Fixing(vs, v, k) == [u \in DOMAIN vs |-> IF u = v THEN k ELSE vs[u].min]

\* The child space allows the value k for the pivot of the branch b: k satisfies
\* the propagator the child posts.
Allows(child, b, k) == Satisfies(Fixing(b.space.vars, b.pivot, k), Posted(child.space.props))

\* The domain the propagator a child posts leaves the pivot of the branch b when it
\* is run alone on the store of the child.
PivotIn(child, b) ==
    prune(Posted(child.space.props), NewContext(child.space.vars, <<>>)).vars[b.pivot]

\* The children of the branch b of the iterator it partition the parent.
Partitions(it, b) ==
    /\ LeftChild(it).space.vars = b.space.vars
    /\ RightChild(it).space.vars = b.space.vars
    /\ \A k \in b.space.vars[b.pivot].min .. b.space.vars[b.pivot].max :
          /\ Allows(LeftChild(it), b, k) <=> k <= b.mid
          /\ Allows(RightChild(it), b, k) <=> k > b.mid
          /\ Allows(LeftChild(it), b, k) # Allows(RightChild(it), b, k)
    /\ PivotIn(LeftChild(it), b) = Interval(b.space.vars[b.pivot].min, b.mid)
    /\ PivotIn(RightChild(it), b) = Interval(b.mid + 1, b.space.vars[b.pivot].max)

\* C32: at every branching point, with pivot p and split value mid, the left child
\* restricts p <= mid and the right child p > mid, so that every value of the domain
\* p has in the parent lies in exactly one child; and before propagation the
\* domains of both children are those of the parent.
C32_ChildrenPartition ==
    AtBranchingPoint => Partitions(search.stack[Len(search.stack)], TopBranch[1])

\* A branching point whose pivot has three values, in a space of two variables.
C32_Witness ==
    /\ AtBranchingPoint
    /\ Len(TopBranch[1].space.vars) = 2
    /\ TopBranch[1].space.vars[TopBranch[1].pivot] = Interval(0, 2)

\* The domain d is non-empty and a strict subset of the domain e.
StrictlyWithin(d, e) == ~IsEmpty(d) /\ Within(d, e) /\ d # e

\* C33: for every unassigned domain [min, max], min < max, the split value mid
\* satisfies min <= mid < max, so that the pivot has in both children a non-empty
\* domain that is a strict subset of the one it has in the parent.
C33_MidSplitsStrictly ==
    /\ \A min, max \in BoundArgs :
          min < max => /\ min <= mid(Interval(min, max))
                       /\ mid(Interval(min, max)) < max
    /\ AtBranchingPoint =>
          /\ ~is_set(TopBranch[1].space.vars[TopBranch[1].pivot])
          /\ TopBranch[1].mid = mid(TopBranch[1].space.vars[TopBranch[1].pivot])
          /\ StrictlyWithin(PivotIn(LeftChild(search.stack[Len(search.stack)]), TopBranch[1]),
                            TopBranch[1].space.vars[TopBranch[1].pivot])
          /\ StrictlyWithin(PivotIn(RightChild(search.stack[Len(search.stack)]), TopBranch[1]),
                            TopBranch[1].space.vars[TopBranch[1].pivot])

\* A branching point whose pivot has two values: the split value is the lower one.
C33_Witness ==
    /\ AtBranchingPoint
    /\ TopBranch[1].space.vars[TopBranch[1].pivot] = Interval(1, 2)
    /\ TopBranch[1].mid = 1

(***************************************************************************)
(* The split value in machine arithmetic.  i32 is scaled down to integers  *)
(* of WordBits bits, two's complement: the bounds of a domain range over   *)
(* all of them, and each operation of min + (max - min) / 2 either fits or *)
(* overflows, on which a build with overflow checks panics and a build     *)
(* without wraps.  vars is the domain, result the outcome of the call.     *)
(***************************************************************************)
WordBits == 4
WordMax == 2 ^ (WordBits - 1) - 1
WordMin == -(2 ^ (WordBits - 1))
Word == WordMin..WordMax

\* Whether n fits the word, and the word n wraps to.
Fits(n) == n \in Word
Wrapped(n) == ((n - WordMin) % (2 ^ WordBits)) + WordMin

\* The operator / of the integers of the machine: the quotient rounded towards zero.
i32_div_by_two(n) == IF n < 0 THEN -((-n) \div 2) ELSE n \div 2

\* min + (max - min) / 2 on words: the outcomes a build can produce, wrapped where
\* the arithmetic does not panic.
Mid_wrapping(var) == Wrapped(var.min + i32_div_by_two(Wrapped(var.max - var.min)))
Mid_overflows(var) ==
    \/ ~Fits(var.max - var.min)
    \/ ~Fits(var.min + i32_div_by_two(Wrapped(var.max - var.min)))
Mid_outcomes(var) ==
    IF Mid_overflows(var)
    THEN {[overflow |-> TRUE, panicked |-> TRUE, mid |-> 0],
          [overflow |-> TRUE, panicked |-> FALSE, mid |-> Mid_wrapping(var)]}
    ELSE {[overflow |-> FALSE, panicked |-> FALSE, mid |-> Mid_wrapping(var)]}

InitMid ==
    /\ vars \in {<<Interval(min, max)>> : min, max \in Word}
    /\ vars[1].min < vars[1].max
    /\ props = Propagators_default
    /\ pc = "mid"
    /\ call = [api |-> "none"]
    /\ search = [tag |-> "None"]
    /\ yielded = <<>>
    /\ result = None

\* Var::mid on the domain at hand
Var_mid ==
    /\ pc = "mid"
    /\ call.api = "none"
    /\ call' = [api |-> "mid"]
    /\ \E outcome \in Mid_outcomes(vars[1]) : result' = Some(outcome)
    /\ UNCHANGED <<vars, props, pc, search, yielded>>

NextMid == Var_mid

SpecMid == InitMid /\ [][NextMid]_state_vars

\* C34: computing mid = min + floor((max - min) / 2) overflows for no domain with
\* bounds min < max of the machine, the widest one [MIN, MAX] included.
C34_MidNeverOverflows ==
    (pc = "mid" /\ result # None) => ~result[1].overflow

(***************************************************************************)
(* The pivot of the searcher generation (search/branch/pick.rs).           *)
(***************************************************************************)
\* v is the unassigned variable of the domains vs with the smallest id.
IsFirstUnset(v, vs) ==
    /\ v \in DOMAIN vs
    /\ ~is_set(vs[v])
    /\ \A u \in DOMAIN vs : u < v => is_set(vs[u])

\* The picker of the space finds the first unassigned variable of its store, and
\* none exactly when every variable is assigned.
PicksFirst(space) ==
    IF AllSet(space.vars.vars)
    THEN FirstUnset_pick(space.brancher, space.vars).pivot = None
    ELSE /\ FirstUnset_pick(space.brancher, space.vars).pivot # None
         /\ IsFirstUnset(FirstUnset_pick(space.brancher, space.vars).pivot[1],
                         space.vars.vars)

\* C35: at every branching point, after any sequence of branches and backtracks, the
\* pivot is the unassigned variable with the smallest id in the space, and no pivot
\* is found exactly when every variable is assigned: for the space under
\* propagation, whose picker the engine asks when it stalls, and for the pivot of
\* every task pending, in the space the task was derived from.
C35_PivotIsFirstUnset ==
    Searching =>
        /\ InFlight => PicksFirst(TheRun.space)
        /\ \A i \in DOMAIN search.tasks :
              IsFirstUnset(search.tasks[i].choice.pivot, search.tasks[i].space.vars.vars)

\* The engine has come back from a subtree: a solution is recorded, and the tasks
\* pending branch on the first variable and, above it, on the second.
C35_Witness ==
    /\ Searching
    /\ search.solution # None
    /\ Len(search.tasks) >= 2
    /\ search.tasks[1].choice.pivot = 1
    /\ TopTask.choice.pivot = 2

(***************************************************************************)
(* Siblings (search/engine.rs): the tasks of a space share one copy of it, *)
(* and the engine works on a clone.                                        *)
(***************************************************************************)
\* The tasks the step pushed.
Pushed == SubSeq(search.tasks', Len(search.tasks) + 1, Len(search.tasks'))

\* The step pushes the children of the space that stalled: each holds the domains
\* of that space as they were, and all hold the same brancher.
PushesTheParent ==
    /\ IsPrefix(search.tasks, search.tasks')
    /\ \A i \in DOMAIN Pushed :
          /\ InFlight
          /\ TheRun.agenda = <<>>
          /\ Pushed[i].space.vars = TheRun.space.vars
          /\ Pushed[i].space.brancher = Pushed[1].space.brancher

\* The step pops the task on top: the tasks beneath stay as they were, and the space
\* the engine goes on with is the space of the task with its mutation applied.
PopsTheTop ==
    /\ search.tasks' = SubSeq(search.tasks, 1, Len(search.tasks) - 1)
    /\ search.run = None
    /\ search.run' # None =>
          /\ search.run'[1].space.brancher = TopTask.space.brancher
          /\ search.run'[1].space.vars =
                drained(mutate_then_tighten(TopTask.choice, call.obj, obj_opt,
                                            TopTask.space.vars))

\* C36: exploring a child never changes what its siblings are derived from. The
\* tasks of a space hold its domains and brancher as they were when it stalled; no
\* step of the search changes a task that stays pending, whatever is mutated,
\* propagated and searched above it; and a popped task starts from the space it
\* holds. The propagators are those of the searcher, which no step changes.
C36_SiblingsStartFromParent ==
    [][(Searching /\ Searching') =>
          /\ props' = props
          /\ IF Len(search.tasks') >= Len(search.tasks)
             THEN PushesTheParent ELSE PopsTheTop]_state_vars

\* The engine is back at the root after a solution was found under another child of
\* it: the task on top sets the first variable to a value the solution does not
\* give it, and its space still holds the second variable unassigned.
C36_Witness ==
    /\ Searching
    /\ search.run = None
    /\ search.solution # None
    /\ Len(search.tasks) = 1
    /\ TopTask.choice.pivot = 1
    /\ TopTask.choice.mutation.val # search.solution[1][1]
    /\ Len(TopTask.space.vars.vars) >= 2
    /\ ~is_set(TopTask.space.vars.vars[2])

(***************************************************************************)
(* The search with its change events drained in the order of the ids: the  *)
(* run the runs of the engine are compared with.                           *)
(***************************************************************************)
\* The events in the order of their ids.
ascending(events) ==
    CHOOSE o \in drain_orders(events) : \A i, j \in DOMAIN o : i < j => o[i] < o[j]

RECURSIVE propagate_ascending(_, _, _)
\* Searcher::propagate up to the empty agenda: after is the store the propagator at
\* the front of the agenda left.
propagate_after(deps, after, rest) ==
    IF after.failed THEN after
    ELSE propagate_ascending(deps, drained(after),
                             schedule_in_order(deps, ascending(after.events), rest))

propagate_ascending(deps, vs, agenda) ==
    IF agenda = <<>> THEN vs
    ELSE propagate_after(deps, propagate_prop(deps, Head(agenda), vs), Tail(agenda))

\* Searcher::mutate_then_propagate from the store vs, mutated and not yet drained.
propagate_mutated(deps, vs) ==
    IF vs.failed THEN vs
    ELSE propagate_ascending(deps, drained(vs),
                             schedule_in_order(deps, ascending(vs.events), <<>>))

\* The solution Stack::search keeps of the one it holds and a candidate.
better(solution, candidate) ==
    IF solution = None \/ candidate[call.obj] < solution[1][call.obj]
    THEN Some(candidate) ELSE solution

\* The best objective value of a solution, if there is one.
obj_of(solution) == IF solution = None THEN None ELSE Some(solution[1][call.obj])

RECURSIVE search_ascending(_, _)
\* Stack::search, a turn of the loop: the task popped left the store fixed.
search_settle(rest, solution, space, fixed, assignment) ==
    IF fixed.failed THEN search_ascending(rest, solution)
    ELSE IF assignment = None
    THEN search_ascending(push_tasks(rest, [space EXCEPT !.vars = fixed]), solution)
    ELSE IF ~call.is_exhaustive THEN assignment
    ELSE search_ascending(rest, better(solution, assignment[1]))

search_fixed(rest, solution, space, fixed) ==
    search_settle(rest, solution, space, fixed,
                  IF fixed.failed THEN None
                  ELSE get_assignment_if_all_variables_are_set(fixed))

search_task(rest, solution, task) ==
    search_fixed(rest, solution, task.space,
                 propagate_mutated(props, mutate_then_tighten(task.choice, call.obj,
                                                             obj_of(solution),
                                                             task.space.vars)))

search_ascending(tasks, solution) ==
    IF tasks = <<>> THEN solution
    ELSE search_task(SubSeq(tasks, 1, Len(tasks) - 1), solution, tasks[Len(tasks)])

\* Searcher::search once propagate_with_all_props left the store fixed.
search_propagated(fixed, assignment) ==
    IF fixed.failed THEN None
    ELSE IF assignment # None THEN assignment
    ELSE search_ascending(push_tasks(<<>>, Searcher_Space(fixed, Brancher_from_vars(vars))),
                          None)

search_root(fixed) ==
    search_propagated(fixed, IF fixed.failed THEN None
                       ELSE get_assignment_if_all_variables_are_set(fixed))

\* What the search of the model returns when events are drained in the order of ids.
Searcher_search_ascending ==
    search_root(propagate_ascending(props, Vars_new(vars), all_props(props)))

\* C37: two runs of a search on the same model return the same, whatever order the
\* change events of a propagator run are drained in: what any run returns is what
\* the run that drains them in the order of the ids returns.
C37_DrainOrderIsImmaterial ==
    pc = "returned" => result = Searcher_search_ascending

\* The propagator about to run changes two variables whose dependents differ: the
\* agenda the engine goes on with depends on the order the events are drained in.
OrdersDiffer(events, rest) ==
    \E o1, o2 \in drain_orders(events) :
        schedule_in_order(props, o1, rest) # schedule_in_order(props, o2, rest)

C37_Witness ==
    /\ InFlight
    /\ ~TheRun.initial
    /\ TheRun.agenda # <<>>
    /\ ~propagate_prop(props, Head(TheRun.agenda), TheRun.space.vars).failed
    /\ OrdersDiffer(propagate_prop(props, Head(TheRun.agenda), TheRun.space.vars).events,
                    Tail(TheRun.agenda))

(***************************************************************************)
(* One prune of a propagator of props/*.rs over views, on a drawn store:   *)
(* the terms and, after them, a sum.                                       *)
(***************************************************************************)
IntervalsIn(lo, hi) == {d \in [min : lo..hi, max : lo..hi] : d.min <= d.max}

PruneStores ==
    {xs \o <<s>> : xs \in [1..MaxVars -> IntervalsIn(0, MaxVal)],
                   s \in IntervalsIn(-MaxVal, MaxTerms * MaxVal)}

\* The id of the sum, after those of the terms.
SumVar == MaxVars + 1

\* The views over the two terms: each, a constant, and the opposite, the offset and
\* the scaling of each.
TermViews == ViewsOver([v \in 1..MaxVars |-> Interval(0, MaxVal)])

\* The propagators over them; the third variable is the sum of an Add or a Sum.
PruneProps ==
    {Equals_new(x, y) : x \in TermViews, y \in TermViews}
        \cup {LessThanOrEquals_new(x, y) : x \in TermViews, y \in TermViews}
        \cup {Add_new(x, y, SumVar) : x \in TermViews, y \in TermViews}
        \cup {Sum_new(<<x>>, SumVar) : x \in TermViews}
        \cup {Sum_new(<<x, y>>, SumVar) : x \in TermViews, y \in TermViews}

InitPrune ==
    /\ vars \in PruneStores
    /\ props \in PruneProps
    /\ pc = "prune"
    /\ call = [api |-> "none"]
    /\ search = [tag |-> "None"]
    /\ yielded = <<>>
    /\ result = None

\* The outcome of a prune that left the context ctx.
Pruned(ctx) == [failed |-> ctx.failed, vars |-> ctx.vars]

\* Prune::prune of the propagator on a context over the store
Prune_prune ==
    /\ pc = "prune"
    /\ call.api = "none"
    /\ call' = [api |-> props.kind]
    /\ result' = Some(Pruned(prune(props, NewContext(vars, <<>>))))
    /\ UNCHANGED <<vars, props, pc, search, yielded>>

NextPrune == Prune_prune

SpecPrune == InitPrune /\ [][NextPrune]_state_vars

\* The assignment a is within the domains vs.
Inside(a, vs) == \A v \in DOMAIN vs : vs[v].min <= a[v] /\ a[v] <= vs[v].max

\* C38: a prune of Equals, LessThanOrEquals, Add or Sum over views removes no value
\* that occurs in an assignment, within the domains it is run on, that satisfies the
\* constraint, and it fails only when there is no such assignment: every such
\* assignment is within the domains the prune leaves, and when there is one the
\* prune does not fail.
C38_PruneKeepsSolutions ==
    (pc = "prune" /\ result # None) =>
        \A a \in Assignments(vars) :
            Satisfies(a, props) => ~result[1].failed /\ Inside(a, result[1].vars)

\* A Sum of a scaled and a negated term has narrowed the domains and kept the
\* assignments that satisfy it.
C38_Witness ==
    /\ pc = "prune"
    /\ result # None
    /\ props.kind = "Sum"
    /\ Len(props.xs) = MaxTerms
    /\ props.xs[1].tag = "TimesPos"
    /\ props.xs[2].tag = "Opposite"
    /\ ~result[1].failed
    /\ \A v \in DOMAIN vars : result[1].vars[v] # vars[v]
    /\ \E a \in Assignments(vars) : Satisfies(a, props)

(***************************************************************************)
(* The order enumerate() yields in.                                        *)
(***************************************************************************)
\* The vector a comes strictly before b in the lexicographic order of the values
\* indexed by the ids.
LexLess(a, b) ==
    \E v \in DOMAIN a :
        /\ a[v] < b[v]
        /\ \A u \in DOMAIN a : u < v => a[u] = b[u]

\* C39: with the default brancher (first unassigned pivot, binary split, left child
\* first), enumerate() yields its solutions in strictly increasing lexicographic
\* order of their value vectors: each one yielded comes strictly after the one
\* yielded before it.
C39_YieldsInLexOrder ==
    call.api = "enumerate" =>
        \A i \in DOMAIN yielded : i > 1 => LexLess(yielded[i - 1], yielded[i])

\* An enumeration has yielded three solutions, the second differing from the first
\* in the last variable alone and the third from the second in the first variable.
C39_Witness ==
    /\ call.api = "enumerate"
    /\ Len(yielded) >= 3
    /\ Len(yielded[1]) >= 2
    /\ yielded[1][1] = yielded[2][1]
    /\ yielded[2][1] < yielded[3][1]
    /\ yielded[3][Len(yielded[3])] < yielded[2][Len(yielded[2])]

(***************************************************************************)
(* The scaling propagators of the searcher generation (props.rs) against   *)
(* the scaling view (views.rs).                                            *)
(***************************************************************************)
\* The quotients PropScalePos computes for the coefficient c and the bound v.
ScaleCeil(v, c) == i32_div(next_multiple_of_tmp(v, c), c)
ScaleFloor(v, c) == i32_div(v - rem_euclid(v, c), c)

\* The bounds of y set on x through the view x * coef, on a context over vs:
\* the minimum, then the maximum.
SetThroughView(x, y, coef, vs) ==
    try_set_max(times(Var(x), coef), vs[y].max,
                try_set_min(times(Var(x), coef), vs[y].min, NewContext(vs, <<>>)))

\* The coefficients of a scaling, positive and negative.
ScaleCoefs == {c \in (-(MaxScale + 1))..(MaxScale + 1) : c # 0}

\* A store of x and of its product y, and the dependencies (x, y, coef) of the
\* propagator that ties them.
InitScale ==
    /\ vars \in {<<x, y>> : x \in IntervalsIn(-MaxVal, MaxVal),
                           y \in IntervalsIn(-MaxBound, MaxBound)}
    /\ props \in {<<1, 2, c>> : c \in ScaleCoefs}
    /\ pc = "scale"
    /\ call = [api |-> "none"]
    /\ search = [tag |-> "None"]
    /\ yielded = <<>>
    /\ result = None

\* PropScalePos::propagate((x, y, coef), vars)
PropScalePos_run ==
    /\ pc = "scale"
    /\ call.api = "none"
    /\ props[3] > 0
    /\ call' = [api |-> "PropScalePos"]
    /\ result' = Some(Pruned(PropScalePos_propagate(props, Vars_new(vars))))
    /\ UNCHANGED <<vars, props, pc, search, yielded>>

\* PropScaleNeg::propagate((x, y, coef), vars)
PropScaleNeg_run ==
    /\ pc = "scale"
    /\ call.api = "none"
    /\ props[3] < 0
    /\ call' = [api |-> "PropScaleNeg"]
    /\ result' = Some(Pruned(PropScaleNeg_propagate(props, Vars_new(vars))))
    /\ UNCHANGED <<vars, props, pc, search, yielded>>

\* try_set_min, then try_set_max, of x.times(coef) with the bounds of y
TimesPos_run ==
    /\ pc = "scale"
    /\ call.api = "none"
    /\ call' = [api |-> "TimesPos"]
    /\ result' = Some(Pruned(SetThroughView(props[1], props[2], props[3], vars)))
    /\ UNCHANGED <<vars, props, pc, search, yielded>>

NextScale == PropScalePos_run \/ PropScaleNeg_run \/ TimesPos_run

SpecScale == InitScale /\ [][NextScale]_state_vars

\* The outcomes r and w fail together or leave x the same domain.
SameForX(x, r, w) == r.failed = w.failed /\ (~r.failed => r.vars[x] = w.vars[x])

\* What the other generation leaves on the store: the view if the propagator has
\* run, the propagator if the view has.
OtherGeneration ==
    IF call.api = "TimesPos"
    THEN IF props[3] > 0
         THEN Pruned(PropScalePos_propagate(props, Vars_new(vars)))
         ELSE Pruned(PropScaleNeg_propagate(props, Vars_new(vars)))
    ELSE Pruned(SetThroughView(props[1], props[2], props[3], vars))

\* The quotients of v by c > 0 are the ceiling and the floor, in both generations.
RoundsAsClaimed(v, c) ==
    /\ ScaleCeil(v, c) = Ceiling(v, c)
    /\ ScaleFloor(v, c) = Floor(v, c)
    /\ div_ceil(v, c) = Ceiling(v, c)
    /\ div_floor(v, c) = Floor(v, c)

\* C40: for every coefficient c > 0 and every v, negative or not,
\* v.next_multiple_of_tmp(c) / c is the ceiling of v / c and
\* (v - v.rem_euclid(c)) / c its floor, as div_ceil and div_floor are; so that
\* PropScalePos, and PropScaleNeg with -c, leave x the bounds that setting the
\* bounds of y through the view x * coef leaves it, and fail when it fails.
C40_ScaleRoundsAsTheView ==
    (pc = "scale" /\ result # None) =>
        /\ RoundsAsClaimed(vars[props[2]].min, abs(props[3]))
        /\ RoundsAsClaimed(vars[props[2]].max, abs(props[3]))
        /\ SameForX(props[1], result[1], OtherGeneration)

\* PropScalePos has run on a product whose minimum is negative and not a multiple
\* of the coefficient, and has raised the minimum of x.
C40_Witness ==
    /\ pc = "scale"
    /\ result # None
    /\ call.api = "PropScalePos"
    /\ vars[props[2]].min < 0
    /\ vars[props[2]].min % props[3] # 0
    /\ ~result[1].failed
    /\ result[1].vars[props[1]].min > vars[props[1]].min

====
